---- MODULE Spec2Model ----
(***************************************************************************)
(* Chessbot arena: the game state kept by App, the move rules of           *)
(* chess/moveValidation, the host's bot-worker dispatch, and the bots'     *)
(* makeMove entry points.                                                  *)
(*                                                                         *)
(* The board is board[row][col] as in the source: row is the file          *)
(* (0 = a .. 7 = h), col is the rank (white starts on col 0/1, black on    *)
(* col 7/6); pawns advance along col.                                      *)
(***************************************************************************)
EXTENDS Integers, Sequences, FiniteSets, TLC

VARIABLES gameState, gameStarted, lastMove, timer, botWorkerRef, crashed, line

\* the transposition table of ULTRATHINK's search engine: the entries of its
\* Map in insertion order, the engine's age counter, and the entries the last
\* store call deleted
VARIABLES table, age, evicted

\* Claude Opus 4's search: the alphaBeta call followed along one path of the
\* tree (with the depth of the iteration of makeMove it belongs to), and the
\* checkmate scores alphaBeta has returned
VARIABLES opusNode, opusMates

\* ULTRATHINK's search: the alphaBeta or quiescence call followed along one
\* path of the tree
VARIABLES searchNode

\* ULTRATHINK's move ordering: killerMoves, and the beta cutoffs of alphaBeta
\* so far
VARIABLES killerMoves, cutoffs

hostVars == <<gameState, gameStarted, lastMove, timer, botWorkerRef, crashed, line>>
tableVars == <<table, age, evicted>>
opusVars == <<opusNode, opusMates>>
killerVars == <<killerMoves, cutoffs>>
engineVars == <<tableVars, opusVars, searchNode, killerVars>>

vars == <<hostVars, engineVars>>

---------------------------------------------------------------------------
(* chess/gameState *)

WHITE == "white"
BLACK == "black"
COLORS == {WHITE, BLACK}

KING == "king"
QUEEN == "queen"
ROOK == "rook"
BISHOP == "bishop"
KNIGHT == "knight"
PAWN == "pawn"
PIECE_TYPES == {KING, QUEEN, ROOK, BISHOP, KNIGHT, PAWN}

Idx == 0..7

\* JavaScript null, for a square without a piece
null == [type |-> "null", color |-> "null"]
\* JavaScript null, for enPassantTarget
nullSquare == [row |-> -1, col |-> -1]
\* JavaScript null, for a move (a bot's "no move") and for lastMove
nullMove == [from |-> nullSquare, to |-> nullSquare]

Sq(r, c) == [row |-> r, col |-> c]
Squares == {Sq(r, c) : r \in Idx, c \in Idx}
Mv(fr, fc, tr, tc) == [from |-> Sq(fr, fc), to |-> Sq(tr, tc)]
P(t, c) == [type |-> t, color |-> c]

Abs(x) == IF x < 0 THEN -x ELSE x
Opponent(color) == IF color = WHITE THEN BLACK ELSE WHITE

BackRank == <<ROOK, KNIGHT, BISHOP, QUEEN, KING, BISHOP, KNIGHT, ROOK>>

createInitialBoard ==
  [r \in Idx |-> [c \in Idx |->
     CASE c = 0 -> P(BackRank[r + 1], WHITE)
       [] c = 1 -> P(PAWN, WHITE)
       [] c = 6 -> P(PAWN, BLACK)
       [] c = 7 -> P(BackRank[r + 1], BLACK)
       [] OTHER -> null]]

\* createGameState draws both players with getRandomBot; wp and bp are the draws
createGameState(wp, bp) ==
  [board |-> createInitialBoard,
   currentTurn |-> WHITE,
   capturedPieces |-> [white |-> <<>>, black |-> <<>>],
   gameStatus |-> "playing",
   whitePlayer |-> wp,
   blackPlayer |-> bp,
   castlingRights |-> [whiteKingSide |-> TRUE, whiteQueenSide |-> TRUE,
                       blackKingSide |-> TRUE, blackQueenSide |-> TRUE],
   enPassantTarget |-> nullSquare,
   moveHistory |-> <<>>,
   positionHistory |-> <<>>]

---------------------------------------------------------------------------
(* chess/moveValidation *)

Sign(x) == IF x > 0 THEN 1 ELSE IF x < 0 THEN -1 ELSE 0
Max(a, b) == IF a >= b THEN a ELSE b

\* walks from `from` toward `to` one step at a time; every square strictly
\* between them must be empty
isPathClear(board, from, to) ==
  LET rowStep == Sign(to.row - from.row)
      colStep == Sign(to.col - from.col)
      n == Max(Abs(to.row - from.row), Abs(to.col - from.col))
  IN \A i \in 1..(n - 1) : board[from.row + i * rowStep][from.col + i * colStep] = null

\* variant of the knight rule that also lets the knight go three squares
\* straight
isValidKnightMoveWide(rowDiff, colDiff) ==
  Abs(rowDiff) + Abs(colDiff) = 3

isValidKnightMove(rowDiff, colDiff) ==
  \/ Abs(rowDiff) = 2 /\ Abs(colDiff) = 1
  \/ Abs(rowDiff) = 1 /\ Abs(colDiff) = 2

canPieceAttackSquare(board, from, to, piece) ==
  LET rowDiff == to.row - from.row
      colDiff == to.col - from.col
  IN CASE piece.type = PAWN ->
            LET direction == IF piece.color = WHITE THEN 1 ELSE -1
            IN colDiff = direction /\ Abs(rowDiff) = 1
       [] piece.type = ROOK ->
            (rowDiff = 0 \/ colDiff = 0) /\ isPathClear(board, from, to)
       [] piece.type = BISHOP ->
            Abs(rowDiff) = Abs(colDiff) /\ isPathClear(board, from, to)
       [] piece.type = KNIGHT -> isValidKnightMove(rowDiff, colDiff)
       [] piece.type = QUEEN ->
            (rowDiff = 0 \/ colDiff = 0 \/ Abs(rowDiff) = Abs(colDiff))
            /\ isPathClear(board, from, to)
       [] piece.type = KING -> Abs(rowDiff) <= 1 /\ Abs(colDiff) <= 1
       [] OTHER -> FALSE

isSquareUnderAttack(board, square, attackingColor) ==
  \E row \in Idx, col \in Idx :
     /\ board[row][col] # null
     /\ board[row][col].color = attackingColor
     /\ canPieceAttackSquare(board, Sq(row, col), square, board[row][col])

\* board.map(row => [...row]) with the piece on `from` put on `to`
makeMove(board, from, to) ==
  [r \in Idx |-> [c \in Idx |->
     IF r = to.row /\ c = to.col THEN board[from.row][from.col]
     ELSE IF r = from.row /\ c = from.col THEN null
     ELSE board[r][c]]]

isValidPawnMove(board, from, to, rowDiff, colDiff, color, gameState_) ==
  LET direction == IF color = WHITE THEN 1 ELSE -1
      startCol == IF color = WHITE THEN 1 ELSE 6
      toPiece == board[to.row][to.col]
  IN IF rowDiff = 0
     THEN /\ toPiece = null
          /\ \/ colDiff = direction
             \/ /\ from.col = startCol
                /\ colDiff = 2 * direction
                /\ board[from.row][from.col + direction] = null
     ELSE /\ Abs(rowDiff) = 1
          /\ colDiff = direction
          /\ \/ toPiece # null
             \/ /\ gameState_.enPassantTarget # nullSquare
                /\ gameState_.enPassantTarget.row = to.row
                /\ gameState_.enPassantTarget.col = to.col

isValidRookMove(board, from, to, rowDiff, colDiff) ==
  /\ ~(rowDiff # 0 /\ colDiff # 0)
  /\ isPathClear(board, from, to)

isValidBishopMove(board, from, to, rowDiff, colDiff) ==
  /\ Abs(rowDiff) = Abs(colDiff)
  /\ isPathClear(board, from, to)

isValidQueenMove(board, from, to, rowDiff, colDiff) ==
  \/ isValidRookMove(board, from, to, rowDiff, colDiff)
  \/ isValidBishopMove(board, from, to, rowDiff, colDiff)

castlingKey(color, kingSide) ==
  IF color = WHITE
  THEN (IF kingSide THEN "whiteKingSide" ELSE "whiteQueenSide")
  ELSE (IF kingSide THEN "blackKingSide" ELSE "blackQueenSide")

\* variant of isValidCastling that does not look at the castling rights
isValidCastlingIgnoringRights(board, from, to, gameState_) ==
  LET piece == board[from.row][from.col]
      kingStartCol == IF piece.color = WHITE THEN 0 ELSE 7
      kingSide == to.row > from.row
      rookRow == IF kingSide THEN 7 ELSE 0
      rookPiece == board[rookRow][kingStartCol]
      direction == IF kingSide THEN 1 ELSE -1
      between == IF kingSide THEN (from.row + 1)..(rookRow - 1)
                 ELSE (rookRow + 1)..(from.row - 1)
      opponentColor == Opponent(piece.color)
  IN /\ piece.type = KING
     /\ from.col = kingStartCol /\ from.row = 4
     /\ Abs(to.row - from.row) = 2 /\ to.col = from.col
     /\ rookPiece # null /\ rookPiece.type = ROOK /\ rookPiece.color = piece.color
     /\ \A row \in between : board[row][kingStartCol] = null
     /\ ~isSquareUnderAttack(board, from, opponentColor)
     /\ \A step \in 1..2 :
          ~isSquareUnderAttack(board, Sq(from.row + direction * step, kingStartCol),
                               opponentColor)

isValidCastling(board, from, to, gameState_) ==
  LET piece == board[from.row][from.col]
      kingStartCol == IF piece.color = WHITE THEN 0 ELSE 7
      kingStartRow == 4
      kingSide == to.row > from.row
      rookRow == IF kingSide THEN 7 ELSE 0
      rookPiece == board[rookRow][kingStartCol]
      direction == IF kingSide THEN 1 ELSE -1
      between == IF kingSide THEN (from.row + 1)..(rookRow - 1)
                 ELSE (rookRow + 1)..(from.row - 1)
      opponentColor == Opponent(piece.color)
  IN /\ piece.type = KING
     /\ from.col = kingStartCol /\ from.row = kingStartRow
     /\ Abs(to.row - from.row) = 2 /\ to.col = from.col
     /\ rookPiece # null /\ rookPiece.type = ROOK /\ rookPiece.color = piece.color
     /\ gameState_.castlingRights[castlingKey(piece.color, kingSide)]
     /\ \A row \in between : board[row][kingStartCol] = null
     /\ ~isSquareUnderAttack(board, from, opponentColor)
     /\ \A step \in 1..2 :
          ~isSquareUnderAttack(board, Sq(from.row + direction * step, kingStartCol),
                               opponentColor)

isValidKingMove(board, from, to, rowDiff, colDiff, gameState_) ==
  IF Abs(rowDiff) <= 1 /\ Abs(colDiff) <= 1
  THEN ~isSquareUnderAttack(makeMove(board, from, to), to,
                            Opponent(gameState_.currentTurn))
  ELSE IF Abs(rowDiff) = 2 /\ colDiff = 0
  THEN isValidCastling(board, from, to, gameState_)
  ELSE FALSE

isValidMove(board, from, to, gameState_) ==
  LET fromPiece == board[from.row][from.col]
      toPiece == board[to.row][to.col]
      rowDiff == to.row - from.row
      colDiff == to.col - from.col
  IN /\ fromPiece # null
     /\ fromPiece.color = gameState_.currentTurn
     /\ ~(toPiece # null /\ toPiece.color = fromPiece.color)
     /\ ~(to.row < 0 \/ to.row > 7 \/ to.col < 0 \/ to.col > 7)
     /\ CASE fromPiece.type = PAWN ->
               isValidPawnMove(board, from, to, rowDiff, colDiff, fromPiece.color, gameState_)
          [] fromPiece.type = ROOK -> isValidRookMove(board, from, to, rowDiff, colDiff)
          [] fromPiece.type = BISHOP -> isValidBishopMove(board, from, to, rowDiff, colDiff)
          [] fromPiece.type = KNIGHT -> isValidKnightMove(rowDiff, colDiff)
          [] fromPiece.type = QUEEN -> isValidQueenMove(board, from, to, rowDiff, colDiff)
          [] fromPiece.type = KING ->
               isValidKingMove(board, from, to, rowDiff, colDiff, gameState_)
          [] OTHER -> FALSE

\* the set of squares holding a king of `color` (findKing returns the first in
\* row-major order, or null when there is none)
KingSquares(board, color) ==
  {s \in Squares : board[s.row][s.col] = P(KING, color)}

FirstSquare(S) ==
  CHOOSE s \in S : \A t \in S : s.row < t.row \/ (s.row = t.row /\ s.col <= t.col)

findKing(board, color) ==
  IF KingSquares(board, color) = {} THEN nullSquare
  ELSE FirstSquare(KingSquares(board, color))

isInCheck(board, color) ==
  LET king == findKing(board, color)
  IN IF king = nullSquare THEN FALSE
     ELSE isSquareUnderAttack(board, king, Opponent(color))

hasAnyLegalMove(board, color, gameState_) ==
  \E row \in Idx, col \in Idx :
     /\ board[row][col] # null
     /\ board[row][col].color = color
     /\ \E toRow \in Idx, toCol \in Idx :
          /\ isValidMove(board, Sq(row, col), Sq(toRow, toCol), gameState_)
          /\ ~isInCheck(makeMove(board, Sq(row, col), Sq(toRow, toCol)), color)

isCheckmate(board, color, gameState_) ==
  IF ~isInCheck(board, color) THEN FALSE
  ELSE ~hasAnyLegalMove(board, color, gameState_)

\* `${piece.type[0]}${piece.color[0]}`: the first letters of type and colour
FirstLetter(word) ==
  CASE word = KING -> "k" [] word = KNIGHT -> "k" [] word = QUEEN -> "q"
    [] word = ROOK -> "r" [] word = BISHOP -> "b" [] word = PAWN -> "p"
    [] word = WHITE -> "w" [] word = BLACK -> "b"

SquareString(piece) ==
  IF piece # null THEN FirstLetter(piece.type) \o FirstLetter(piece.color) ELSE "--"

RECURSIVE BoardString(_, _)
\* the squares 0..k-1 of the board in row-major order
BoardString(board, k) ==
  IF k = 0 THEN ""
  ELSE BoardString(board, k - 1) \o SquareString(board[(k - 1) \div 8][(k - 1) % 8])

getBoardPositionString(board, gameState_) ==
  BoardString(board, 64)
    \o FirstLetter(gameState_.currentTurn)
    \o (IF gameState_.castlingRights.whiteKingSide THEN "K" ELSE "-")
    \o (IF gameState_.castlingRights.whiteQueenSide THEN "Q" ELSE "-")
    \o (IF gameState_.castlingRights.blackKingSide THEN "k" ELSE "-")
    \o (IF gameState_.castlingRights.blackQueenSide THEN "q" ELSE "-")

Count(seq, x) == Cardinality({i \in 1..Len(seq) : seq[i] = x})

isDrawByRepetition(gameState_) ==
  LET positionHistory == gameState_.positionHistory
  IN IF Len(positionHistory) < 3 THEN FALSE
     ELSE Count(positionHistory, positionHistory[Len(positionHistory)]) >= 3

---------------------------------------------------------------------------
(* App: executeMove *)

Put(board, r, c, piece) == [board EXCEPT ![r][c] = piece]

\* the en passant branch of executeMove is taken
TakesEnPassantBranch(prevState, from, to) ==
  /\ prevState.board[from.row][from.col].type = PAWN
  /\ prevState.enPassantTarget # nullSquare
  /\ to.row = prevState.enPassantTarget.row
  /\ to.col = prevState.enPassantTarget.col
  /\ prevState.board[to.row][to.col] = null

\* `direction` of the en passant branch
enPassantDirection(movingPiece) == IF movingPiece.color = WHITE THEN -1 ELSE 1

\* the square the en passant branch empties
enPassantRemovedSquare(movingPiece, to) ==
  Sq(to.row + enPassantDirection(movingPiece), to.col)

\* executeMove's updater raises a TypeError: it reads movingPiece.type of an
\* empty square, or indexes a row outside the board in the en passant branch
executeMoveThrows(prevState, from, to) ==
  \/ prevState.board[from.row][from.col] = null
  \/ /\ TakesEnPassantBranch(prevState, from, to)
     /\ enPassantRemovedSquare(prevState.board[from.row][from.col], to).row \notin Idx

isCastlingStep(movingPiece, from, to) ==
  movingPiece.type = KING /\ Abs(to.row - from.row) = 2

castlingRookMoveOf(from, to) ==
  LET kingSide == to.row > from.row
      rookFromRow == IF kingSide THEN 7 ELSE 0
      rookToRow == IF kingSide THEN to.row - 1 ELSE to.row + 1
  IN [from |-> Sq(rookFromRow, from.col), to |-> Sq(rookToRow, from.col)]

\* variant of the promotion test that never promotes
isPromotionNever(movingPiece, to) ==
  movingPiece.type = PAWN /\ to.col \notin Idx

isPromotion(movingPiece, to) ==
  /\ movingPiece.type = PAWN
  /\ to.col = (IF movingPiece.color = WHITE THEN 7 ELSE 0)

\* newBoard of executeMove
executeMoveBoard(prevState, from, to) ==
  LET board == prevState.board
      movingPiece == board[from.row][from.col]
      rm == enPassantRemovedSquare(movingPiece, to)
      b1 == IF TakesEnPassantBranch(prevState, from, to)
            THEN Put(board, rm.row, rm.col, null) ELSE board
      rk == castlingRookMoveOf(from, to)
      b2 == IF isCastlingStep(movingPiece, from, to)
            THEN Put(Put(b1, rk.to.row, rk.to.col, b1[rk.from.row][rk.from.col]),
                     rk.from.row, rk.from.col, null)
            ELSE b1
      b3 == Put(Put(b2, to.row, to.col, movingPiece), from.row, from.col, null)
  IN IF isPromotion(movingPiece, to)
     THEN Put(b3, to.row, to.col, P(QUEEN, movingPiece.color))
     ELSE b3

\* variant of the en passant target update that keeps an old target alive
executeMoveEnPassantTargetKept(prevState, from, to) ==
  IF prevState.board[from.row][from.col].type = PAWN /\ Abs(to.col - from.col) = 2
  THEN Sq(to.row, (from.col + to.col) \div 2)
  ELSE prevState.enPassantTarget

\* newEnPassantTarget of executeMove
executeMoveEnPassantTarget(prevState, from, to) ==
  IF prevState.board[from.row][from.col].type = PAWN /\ Abs(to.col - from.col) = 2
  THEN Sq(to.row, (from.col + to.col) \div 2)
  ELSE nullSquare

\* variant of the castling rights update that grants a right again as soon
\* as king and rook stand on their home squares after the move
executeMoveCastlingRightsRegranted(prevState, from, to) ==
  LET after == makeMove(prevState.board, from, to)
      home(c, r) == LET col == IF c = WHITE THEN 0 ELSE 7
                    IN after[4][col] = P(KING, c) /\ after[r][col] = P(ROOK, c)
  IN [whiteKingSide |-> home(WHITE, 7),
      whiteQueenSide |-> home(WHITE, 0),
      blackKingSide |-> home(BLACK, 7),
      blackQueenSide |-> home(BLACK, 0)]

\* newCastlingRights of executeMove
executeMoveCastlingRights(prevState, from, to) ==
  LET movingPiece == prevState.board[from.row][from.col]
      capturedPiece == prevState.board[to.row][to.col]
      old == prevState.castlingRights
      kingOf(c) == movingPiece.type = KING /\ movingPiece.color = c
      rookFrom(c, r) == movingPiece.type = ROOK /\ movingPiece.color = c /\ from.row = r
      rookTaken(c, r) == /\ capturedPiece # null
                         /\ capturedPiece.type = ROOK
                         /\ capturedPiece.color = c
                         /\ to.row = r
      lost(c, r) == kingOf(c) \/ rookFrom(c, r) \/ rookTaken(c, r)
  IN [whiteKingSide |-> old.whiteKingSide /\ ~lost(WHITE, 7),
      whiteQueenSide |-> old.whiteQueenSide /\ ~lost(WHITE, 0),
      blackKingSide |-> old.blackKingSide /\ ~lost(BLACK, 7),
      blackQueenSide |-> old.blackQueenSide /\ ~lost(BLACK, 0)]

\* newCapturedPieces of executeMove: both captures are credited to the mover
executeMoveCaptured(prevState, from, to) ==
  LET board == prevState.board
      movingPiece == board[from.row][from.col]
      capturedPiece == board[to.row][to.col]
      rm == enPassantRemovedSquare(movingPiece, to)
      enPassantCapturedPiece ==
        IF TakesEnPassantBranch(prevState, from, to) THEN board[rm.row][rm.col] ELSE null
      mine == prevState.capturedPieces[prevState.currentTurn]
      c1 == IF capturedPiece # null THEN Append(mine, capturedPiece) ELSE mine
      c2 == IF enPassantCapturedPiece # null THEN Append(c1, enPassantCapturedPiece) ELSE c1
  IN [prevState.capturedPieces EXCEPT ![prevState.currentTurn] = c2]

\* the moveHistory entry executeMove appends
executeMoveRecord(prevState, from, to) ==
  LET board == prevState.board
      movingPiece == board[from.row][from.col]
      rm == enPassantRemovedSquare(movingPiece, to)
  IN [from |-> from, to |-> to, piece |-> movingPiece,
      captured |-> board[to.row][to.col],
      enPassantCaptured |->
        IF TakesEnPassantBranch(prevState, from, to) THEN board[rm.row][rm.col] ELSE null,
      castlingRookMove |->
        IF isCastlingStep(movingPiece, from, to) THEN castlingRookMoveOf(from, to)
        ELSE nullMove,
      promotion |-> IF isPromotion(movingPiece, to) THEN "queen" ELSE "null"]

\* the game status executeMove computes for the new state
executeMoveStatus(newGameState) ==
  LET newBoard == newGameState.board
      inCheck == isInCheck(newBoard, newGameState.currentTurn)
      hasLegalMoves == hasAnyLegalMove(newBoard, newGameState.currentTurn, newGameState)
  IN IF inCheck /\ ~hasLegalMoves THEN "checkmate"
     ELSE IF ~inCheck /\ ~hasLegalMoves THEN "stalemate"
     ELSE IF isDrawByRepetition(newGameState) THEN "draw"
     ELSE IF inCheck THEN "check"
     ELSE "playing"

\* an updater that keeps positionHistory as it was
executeMoveUnrecorded(prevState, from, to) ==
  LET newBoard == executeMoveBoard(prevState, from, to)
      s1 == [prevState EXCEPT
               !.board = newBoard,
               !.currentTurn = Opponent(prevState.currentTurn),
               !.capturedPieces = executeMoveCaptured(prevState, from, to),
               !.enPassantTarget = executeMoveEnPassantTarget(prevState, from, to),
               !.castlingRights = executeMoveCastlingRights(prevState, from, to),
               !.moveHistory = Append(prevState.moveHistory,
                                      executeMoveRecord(prevState, from, to))]
  IN [s1 EXCEPT !.gameStatus = executeMoveStatus(s1)]

\* the state executeMove's updater returns for prevState (when it does not throw)
executeMove(prevState, from, to) ==
  LET newBoard == executeMoveBoard(prevState, from, to)
      s1 == [prevState EXCEPT
               !.board = newBoard,
               !.currentTurn = Opponent(prevState.currentTurn),
               !.capturedPieces = executeMoveCaptured(prevState, from, to),
               !.enPassantTarget = executeMoveEnPassantTarget(prevState, from, to),
               !.castlingRights = executeMoveCastlingRights(prevState, from, to),
               !.moveHistory = Append(prevState.moveHistory,
                                      executeMoveRecord(prevState, from, to))]
      s2 == [s1 EXCEPT !.positionHistory =
               Append(prevState.positionHistory, getBoardPositionString(newBoard, s1))]
  IN [s2 EXCEPT !.gameStatus = executeMoveStatus(s2)]

---------------------------------------------------------------------------
(* The users' clicks and the workers' replies are drawn from test games: at  *)
(* ply n of game `line` the squares clicked (or the move a worker sends      *)
(* back) are one of TestGames[line]'s moves for that ply.  A game that lists *)
(* <<W, B>> offers W at every white ply and B at every black ply.            *)

MaxPly == 22

a2a3 == Mv(0, 1, 0, 2)
a7a6 == Mv(0, 6, 0, 5)
Ng1f3 == Mv(6, 0, 5, 2)
Nf3g1 == Mv(5, 2, 6, 0)
Ng8f6 == Mv(6, 7, 5, 5)
Nf6g8 == Mv(5, 5, 6, 7)
e2e4 == Mv(4, 1, 4, 3)
d7d5 == Mv(3, 6, 3, 4)

\* a pinned pawn steps aside and the king is taken
GamePin ==
  << {Mv(4, 1, 4, 2), Mv(3, 0, 7, 4), Mv(7, 4, 4, 7), Mv(0, 0, 0, 4)},
     {Mv(5, 6, 5, 5), a7a6, Mv(6, 6, 6, 5)} >>

\* fool's mate, and clicks after it
GameMate ==
  << {Mv(5, 1, 5, 2), Mv(6, 1, 6, 3), a2a3},
     {Mv(4, 6, 4, 4), Mv(3, 7, 7, 3), a7a6} >>

\* white takes en passant on d6 or f6
GameEnPassant ==
  << {e2e4, Mv(4, 3, 4, 4), Mv(4, 4, 3, 5), Mv(4, 4, 5, 5), a2a3},
     {Mv(1, 7, 2, 5), d7d5, Mv(5, 6, 5, 4), a7a6} >>

\* black takes en passant on e3
GameEnPassantBlack ==
  << {Ng1f3, e2e4, a2a3},
     {d7d5, Mv(3, 4, 3, 3), Mv(3, 3, 4, 2)} >>

\* white takes en passant on the a-file
GameEnPassantEdge ==
  << {Mv(1, 1, 1, 3), Mv(1, 3, 1, 4), Mv(1, 4, 0, 5)},
     {Mv(0, 6, 0, 4), Mv(7, 6, 7, 5)} >>

\* the knights go out and back
GameRepeat ==
  << {Ng1f3, Nf3g1}, {Ng8f6, Nf6g8} >>

Nb8c6 == Mv(1, 7, 2, 5)
Nc6b8 == Mv(2, 5, 1, 7)
g2g3 == Mv(6, 1, 6, 2)
Bf1g2 == Mv(5, 0, 6, 1)
\* white castles king-side: the king goes e1-g1
WhiteOO == Mv(4, 0, 6, 0)
\* black castles queen-side: the king goes e8-c8
BlackOOO == Mv(4, 7, 2, 7)

\* white castles king-side, or first moves the king or the rook away and back
GameCastle ==
  << {Ng1f3}, {Nb8c6}, {g2g3}, {Nc6b8}, {Bf1g2, WhiteOO}, {Nb8c6},
     {WhiteOO, Mv(4, 0, 5, 0), Mv(7, 0, 6, 0)}, {Nc6b8},
     {WhiteOO, Mv(5, 0, 4, 0), Mv(6, 0, 7, 0), a2a3}, {Nb8c6},
     {WhiteOO, a2a3}, {Nc6b8} >>

\* a black bishop on a6 looks at f1 when white wants to castle
GameCastleAttacked ==
  << {e2e4}, {Mv(1, 6, 1, 5)}, {g2g3}, {Mv(2, 7, 0, 5)}, {Bf1g2}, {Nb8c6},
     {Ng1f3}, {Nc6b8}, {WhiteOO, a2a3}, {Nb8c6} >>

\* black castles queen-side
GameCastleBlack ==
  << {Ng1f3}, {Nb8c6}, {Nf3g1}, {Mv(3, 6, 3, 5)}, {Ng1f3}, {Mv(2, 7, 4, 5), BlackOOO},
     {Nf3g1}, {Mv(3, 7, 3, 6), BlackOOO}, {Ng1f3},
     {BlackOOO, Mv(0, 7, 1, 7), Mv(4, 7, 3, 7)}, {Nf3g1},
     {BlackOOO, Mv(1, 7, 0, 7), Mv(3, 7, 4, 7)} >>

\* the white king walks to e4 behind its pawns and pieces; black answers
\* ...d7-d5 check, which only e5xd6 en passant can meet
GameEnPassantEscape ==
  << {e2e4}, {Mv(6, 7, 7, 5)}, {Mv(4, 3, 4, 4)}, {Mv(7, 5, 6, 7)},
     {Mv(3, 1, 3, 3)}, {Mv(6, 7, 7, 5)}, {Mv(5, 1, 5, 3)}, {Mv(7, 5, 6, 7)},
     {Ng1f3}, {Mv(6, 7, 7, 5)}, {Mv(4, 0, 4, 1)}, {Mv(7, 5, 6, 7)},
     {Mv(4, 1, 4, 2)}, {Mv(6, 7, 7, 5)}, {Mv(4, 2, 4, 3)}, {Mv(7, 5, 6, 7)},
     {Mv(5, 0, 3, 2)}, {Mv(6, 7, 7, 5)}, {Mv(2, 0, 4, 2)}, {d7d5},
     {Mv(4, 4, 3, 5)}, {a7a6} >>

\* the queen's knights go round the board: twenty plies without a capture
\* and without a check in reach
GameKnightTour ==
  << {Mv(1, 0, 2, 2)}, {Mv(1, 7, 2, 5)}, {Mv(2, 2, 0, 3)}, {Mv(2, 5, 0, 4)},
     {Mv(0, 3, 2, 4)}, {Mv(0, 4, 2, 3)}, {Mv(2, 4, 1, 2)}, {Mv(2, 3, 1, 5)},
     {Mv(1, 2, 3, 3)}, {Mv(1, 5, 3, 4)}, {Mv(3, 3, 5, 2)}, {Mv(3, 4, 5, 5)},
     {Mv(5, 2, 4, 4)}, {Mv(5, 5, 4, 3)}, {Mv(4, 4, 3, 2)}, {Mv(4, 3, 3, 5)},
     {Mv(3, 2, 5, 3)}, {Mv(3, 5, 5, 4)}, {Mv(5, 3, 7, 2)}, {Mv(5, 4, 7, 5)} >>

\* White castles, then the knights go out and home twice
GameCastleRepeat ==
  << {Ng1f3}, {Ng8f6}, {g2g3}, {Nf6g8}, {Bf1g2}, {a7a6}, {WhiteOO},
     {Mv(0, 5, 0, 4)}, {Mv(1, 0, 2, 2)}, {Ng8f6}, {Mv(2, 2, 1, 0)}, {Nf6g8},
     {Mv(1, 0, 2, 2)}, {Ng8f6}, {Mv(2, 2, 1, 0)}, {Nf6g8} >>

\* the white king's rook goes h1-h3-a3 and then leaves the a-file
GameRookLift ==
  << {Mv(7, 1, 7, 3)}, {Mv(1, 7, 2, 5)}, {Mv(7, 0, 7, 2)}, {Mv(2, 5, 1, 7)},
     {Mv(7, 2, 0, 2)}, {Mv(1, 7, 2, 5)}, {Mv(0, 2, 1, 2)}, {Mv(2, 5, 1, 7)} >>

\* the queen's pawn takes on e5 and a bishop checks from b4
GameBishopCheck ==
  << {Mv(3, 1, 3, 3), Mv(3, 3, 4, 4), Mv(2, 1, 2, 2)},
     {Mv(4, 6, 4, 4), Mv(5, 7, 1, 3)} >>

\* the white h-pawn takes its way to g8
GamePromotion ==
  << {Mv(7, 1, 7, 3)}, {Mv(6, 6, 6, 4)}, {Mv(7, 3, 6, 4)}, {Mv(7, 6, 7, 5)},
     {Mv(6, 4, 7, 5)}, {a7a6}, {Mv(7, 5, 7, 6)}, {Mv(0, 5, 0, 4)},
     {Mv(7, 6, 6, 7)}, {Mv(0, 4, 0, 3)} >>

\* the black h-pawn takes its way to g1
GamePromotionBlack ==
  << {Mv(6, 1, 6, 3)}, {Mv(7, 6, 7, 4)}, {Mv(7, 1, 7, 2)}, {Mv(7, 4, 6, 3)},
     {a2a3}, {Mv(6, 3, 7, 2)}, {Mv(0, 2, 0, 3)}, {Mv(7, 2, 7, 1)},
     {Mv(1, 1, 1, 2)}, {Mv(7, 1, 6, 0)} >>

TestGames ==
  << GamePin, GameMate, GameEnPassant, GameEnPassantBlack, GameEnPassantEdge,
     GameRepeat, GameCastle, GameCastleAttacked, GameCastleBlack,
     GameEnPassantEscape, GamePromotion, GamePromotionBlack, GameKnightTour,
     GameCastleRepeat, GameRookLift, GameBishopCheck >>

\* the test games in which the engines are followed beyond the opening
LongGames == {13, 14}

Offered(l, n) ==
  IF n >= MaxPly THEN {}
  ELSE TestGames[l][(n % Len(TestGames[l])) + 1]

---------------------------------------------------------------------------
(* Bots: what is common *)

\* Math.random() is one of 0/RandomSteps .. (RandomSteps-1)/RandomSteps
RandomSteps == 2
Randoms == 0..(RandomSteps - 1)

\* Math.floor(Math.random() * length), for Math.random() = k/RandomSteps
randomIndex(length, k) == (k * length) \div RandomSteps

\* the place of a move in the nested loops row, col, toRow, toCol
ScanKey(m) == ((m.from.row * 8 + m.from.col) * 8 + m.to.row) * 8 + m.to.col

\* the element of index i (from 0) of the array the loops build from `moves`
ScanNth(moves, i) ==
  CHOOSE m \in moves : Cardinality({o \in moves : ScanKey(o) < ScanKey(m)}) = i

\* the pseudo-legal moves of `color`: what the loops over isValidMove collect
ValidMovesOf(board, color, gameState_) ==
  {m \in {Mv(from.row, from.col, to.row, to.col) :
            from \in {q \in Squares : board[q.row][q.col] # null
                                      /\ board[q.row][q.col].color = color},
            to \in Squares} :
     isValidMove(board, m.from, m.to, gameState_)}

PIECE_VALUES(type) ==
  CASE type = PAWN -> 1 [] type = KNIGHT -> 3 [] type = BISHOP -> 3
    [] type = ROOK -> 5 [] type = QUEEN -> 9 [] type = KING -> 0

\* getAllValidMoves(gameState, color) of bot-template: the moves isValidMove
\* accepts whose test move does not leave the king of `color` in check
getAllValidMoves(gameState_, color) ==
  {m \in ValidMovesOf(gameState_.board, color, gameState_) :
     ~isInCheck(makeMove(gameState_.board, m.from, m.to), color)}

---------------------------------------------------------------------------
(* claude-opus-4-20250514-ULTRATHINK *)

ULTRATHINK == "claude-opus-4-20250514-ULTRATHINK"

MAX_DEPTH == 20
QUIESCENCE_DEPTH == 4
NULL_MOVE_REDUCTION == 2
LMR_FULL_DEPTH_MOVES == 4
LMR_REDUCTION_LIMIT == 3

\* MoveOrdering.orderMoves's score of a move, for a new engine at the root:
\* no transposition move, no killer moves, an empty history table.
\* centerBonus * 10 is 80 - |35 - 10 row| - |35 - 10 col|
orderMovesScore(move, board) ==
  LET piece == board[move.from.row][move.from.col]
      target == board[move.to.row][move.to.col]
      promotionRow == IF piece.color = WHITE THEN 7 ELSE 0
  IN (IF target # null
      THEN 10000 + PIECE_VALUES(target.type) * 10 - PIECE_VALUES(piece.type)
      ELSE 0)
     + (IF piece.type = PAWN /\ move.to.col = promotionRow THEN 8500 ELSE 0)
     + (80 - Abs(35 - 10 * move.to.row) - Abs(35 - 10 * move.to.col))

\* orderedMoves[0]: the sort is stable and descending
orderedMovesFirst(moves, board) ==
  CHOOSE m \in moves :
    \A o \in moves :
      \/ orderMovesScore(m, board) > orderMovesScore(o, board)
      \/ /\ orderMovesScore(m, board) = orderMovesScore(o, board)
         /\ ScanKey(m) <= ScanKey(o)

\* SearchEngine.generateAllMoves
generateAllMoves(board, gameState_) ==
  ValidMovesOf(board, gameState_.currentTurn, gameState_)

\* SearchEngine.search. `found` is what the last completed iteration left as
\* pv[0], the root's transposition-table move (one of the generated moves);
\* nullMove when the loop ends (30% of the time used, TIME_UP, or an empty
\* principal variation) before any iteration has replaced bestMove
search(board, gameState_, found) ==
  LET allMoves == generateAllMoves(board, gameState_)
  IN IF allMoves = {} THEN nullMove
     ELSE IF found \in allMoves THEN found
     ELSE orderedMovesFirst(allMoves, board)

\* the update of bestMove after alphaBeta in the iterative deepening loop:
\* pv0 is pv[0], nullMove when the principal variation is empty
ULTRATHINK_update(bestMove, pv0, timeUp) ==
  IF ~timeUp /\ pv0 # nullMove THEN pv0 ELSE bestMove

\* the transposition table during a call: `done` iterations end before the
\* loop is left, pvs[1] is the root's move after depth 1 and pvs[2] after
\* the deeper ones; `aborted` is the root's move as the iteration left it
\* that was running when TIME_UP was thrown
ULTRATHINK_pvOf(run, depth) ==
  IF depth > run.done THEN run.aborted
  ELSE IF depth = 1 THEN run.pvs[1] ELSE run.pvs[2]

RECURSIVE ULTRATHINK_deepen(_, _, _, _)
\* the iterative deepening loop of search from `depth` on. bestMove is
\* nullMove as long as it is orderedMoves[0]
ULTRATHINK_deepen(depth, bestMove, run, maxDepth) ==
  IF depth > maxDepth THEN bestMove
  ELSE IF depth > run.done
  THEN ULTRATHINK_update(bestMove, ULTRATHINK_pvOf(run, depth), TRUE)
  ELSE ULTRATHINK_deepen(depth + 1,
                         ULTRATHINK_update(bestMove, ULTRATHINK_pvOf(run, depth), FALSE),
                         run, maxDepth)

\* the outcome of search's loop for a game of moveCount moves: `found` of
\* search
ULTRATHINK_found(run, moveCount) ==
  ULTRATHINK_deepen(1, nullMove, run, IF moveCount < 10 THEN 6 ELSE 10)

ULTRATHINK_openingMoves(botColor) ==
  IF botColor = WHITE
  THEN << Mv(1, 1, 2, 1), Mv(1, 1, 3, 1), Mv(6, 1, 6, 2),
          Mv(6, 1, 6, 3), Mv(1, 0, 2, 2), Mv(6, 0, 5, 2) >>
  ELSE << Mv(1, 6, 1, 5), Mv(1, 6, 1, 4), Mv(6, 6, 6, 5),
          Mv(6, 6, 6, 4), Mv(1, 7, 2, 5), Mv(6, 7, 5, 5) >>

\* the catch block of makeMove: a random move of those isValidMove accepts
ULTRATHINK_fallback(gameState_, botColor, k) ==
  LET moves == ValidMovesOf(gameState_.board, botColor, gameState_)
  IN IF moves = {} THEN nullMove
     ELSE ScanNth(moves, randomIndex(Cardinality(moves), k))

\* ULTRATHINK's makeMove(gameState, botColor). Inputs: k gives Math.random(),
\* `threw` says that the try block raised an exception, `found` is the
\* outcome of the search (see search)
ULTRATHINK_makeMove(gameState_, botColor, k, threw, found) ==
  LET n == Len(gameState_.moveHistory)
      openingMoves == ULTRATHINK_openingMoves(botColor)
      move == openingMoves[randomIndex(Len(openingMoves), k) + 1]
      adjustedState == [gameState_ EXCEPT !.currentTurn = botColor]
  IN IF threw THEN ULTRATHINK_fallback(gameState_, botColor, k)
     ELSE IF /\ (n = 0 /\ botColor = WHITE) \/ (n = 1 /\ botColor = BLACK)
             /\ isValidMove(gameState_.board, move.from, move.to, gameState_)
     THEN move
     ELSE search(gameState_.board, adjustedState, found)

\* what the caller of ULTRATHINK's makeMove gets: the whole body is one try
\* block and the catch block ends in a return, so every call returns
ULTRATHINK_outcome(gameState_, botColor, k, threw, found) ==
  [kind |-> "returned",
   move |-> ULTRATHINK_makeMove(gameState_, botColor, k, threw, found)]

---------------------------------------------------------------------------
(* claude-sonnet-4-20250514 *)

SONNET4 == "claude-sonnet-4-20250514"

\* values of botState.pieceEvaluationOrder, which the constructor shuffles
PieceOrders ==
  { << QUEEN, ROOK, BISHOP, KNIGHT, PAWN, KING >>,
    << PAWN, KNIGHT, KING, QUEEN, ROOK, BISHOP >> }

indexOf(order, type) == CHOOSE i \in 1..Len(order) : order[i] = type

\* the place of a move in the array getAllValidMoves builds: pieces sorted
\* (stably) by their type's place in the order, then toRow, toCol
Sonnet4_key(m, board, order) ==
  indexOf(order, board[m.from.row][m.from.col].type) * 4096 + ScanKey(m)

Sonnet4_first(moves, board, order) ==
  CHOOSE m \in moves :
    \A o \in moves : Sonnet4_key(m, board, order) <= Sonnet4_key(o, board, order)

makeTestMove(board, from, to) ==
  [board EXCEPT ![to.row][to.col] = board[from.row][from.col],
                ![from.row][from.col] = null]

Sonnet4_getAllValidMoves(gameState_, color) ==
  {m \in ValidMovesOf(gameState_.board, color, gameState_) :
     ~isInCheck(makeTestMove(gameState_.board, m.from, m.to), color)}

\* BotState.updateTimeLimit(moveNumber): the value of timeLimit it leaves
Sonnet4_updateTimeLimit(moveNumber) ==
  IF moveNumber < 10 THEN 500
  ELSE IF moveNumber < 20 THEN 1000
  ELSE 2000

Sonnet4_openingBook(botColor, moveNumber) ==
  IF moveNumber = 1 /\ botColor = WHITE
  THEN << Mv(4, 1, 4, 3), Mv(3, 1, 3, 3), Mv(6, 0, 5, 2) >>
  ELSE << >>

\* findBestMove(gameState, botColor, validMoves, depth). `atOnce` says that
\* isTimeUp() holds at the first test of the loop, so that bestMove is still
\* null; otherwise the loop has rated at least one move and returns one of
\* `moves`: `best` if it is among them
Sonnet4_findBestMove(moves, atOnce, best) ==
  IF atOnce THEN nullMove
  ELSE IF best \in moves THEN best
  ELSE ScanNth(moves, 0)

\* iterativeDeepening(gameState, botColor, validMoves)
Sonnet4_iterativeDeepening(validMoves, board, order, atOnce, best) ==
  LET result == Sonnet4_findBestMove(validMoves, atOnce, best)
  IN IF result # nullMove THEN result ELSE Sonnet4_first(validMoves, board, order)

\* the loop "Check for immediate checkmate" of makeMove: the first of
\* validMoves that isCheckmate accepts on the test board, with the game state
\* of the call; nullMove when the loop ends without a return
Sonnet4_immediateCheckmate(gameState_, botColor, validMoves, order) ==
  LET board == gameState_.board
      mates == {m \in validMoves :
                  isCheckmate(makeTestMove(board, m.from, m.to),
                              Opponent(botColor), gameState_)}
  IN IF mates # {} THEN Sonnet4_first(mates, board, order) ELSE nullMove

\* Sonnet 4's makeMove(gameState, botColor). Inputs: `order` is the piece
\* evaluation order, k gives Math.random(), `atOnce` and `best` are the clock
\* and the outcome of the search (see Sonnet4_findBestMove)
Sonnet4_makeMove(gameState_, botColor, order, k, atOnce, best) ==
  LET board == gameState_.board
      moveNumber == (Len(gameState_.moveHistory) \div 2) + 1
      validMoves == Sonnet4_getAllValidMoves(gameState_, botColor)
      mate == Sonnet4_immediateCheckmate(gameState_, botColor, validMoves, order)
      book == Sonnet4_openingBook(botColor, moveNumber)
      bookMove == IF book = << >> THEN nullMove
                  ELSE book[randomIndex(Len(book), k) + 1]
      priorityMoves == {m \in validMoves :
                          board[m.from.row][m.from.col].type \in {PAWN, KNIGHT}}
  IN IF validMoves = {} THEN nullMove
     ELSE IF Cardinality(validMoves) = 1 THEN CHOOSE m \in validMoves : TRUE
     ELSE IF mate # nullMove THEN mate
     ELSE IF moveNumber <= 3 /\ bookMove \in validMoves THEN bookMove
     ELSE IF moveNumber <= 10 /\ priorityMoves # {}
     THEN Sonnet4_findBestMove(priorityMoves, atOnce, best)
     ELSE Sonnet4_iterativeDeepening(validMoves, board, order, atOnce, best)

---------------------------------------------------------------------------
(* claude-3-5-sonnet-20241022 *)

SONNET35 == "claude-3-5-sonnet-20241022"

Sonnet35_SEARCH_DEPTH == 3
Sonnet35_INFINITY == 100000
Sonnet35_CHECKMATE_SCORE == 50000

\* OPENING_BOOK[botColor][moveCount], the empty list where there is none
Sonnet35_OPENING_BOOK(botColor, moveCount) ==
  IF botColor = WHITE /\ moveCount = 0
  THEN << Mv(4, 1, 4, 3), Mv(3, 1, 3, 3), Mv(6, 0, 5, 2) >>
  ELSE IF botColor = BLACK /\ moveCount = 1
  THEN << Mv(4, 6, 4, 5), Mv(2, 6, 2, 5), Mv(4, 6, 4, 4) >>
  ELSE << >>

\* getOpeningBookMove(gameState, botColor); nullMove for null
Sonnet35_getOpeningBookMove(gameState_, botColor, k) ==
  LET bookMoves == Sonnet35_OPENING_BOOK(botColor, Len(gameState_.moveHistory))
      valid(m) == isValidMove(gameState_.board, m.from, m.to, gameState_)
      validMoves == SelectSeq(bookMoves, valid)
  IN IF validMoves = << >> THEN nullMove
     ELSE validMoves[randomIndex(Len(validMoves), k) + 1]

\* makeTestGameState(gameState, move)
Sonnet35_makeTestGameState(gameState_, move) ==
  [gameState_ EXCEPT
     !.board = makeTestMove(gameState_.board, move.from, move.to),
     !.currentTurn = Opponent(gameState_.currentTurn),
     !.enPassantTarget = nullSquare,
     !.moveHistory = << >>,
     !.gameStatus = "playing"]

\* the score orderMoves sorts by
Sonnet35_orderScore(move, gameState_) ==
  LET from == gameState_.board[move.from.row][move.from.col]
      to == gameState_.board[move.to.row][move.to.col]
  IN (IF to # null THEN 100 * PIECE_VALUES(to.type) - PIECE_VALUES(from.type) ELSE 0)
     + (IF from.type = PAWN /\ move.to.col = (IF from.color = WHITE THEN 7 ELSE 0)
        THEN 900 ELSE 0)
     + (IF move.to.row \in {3, 4} /\ move.to.col \in {3, 4} THEN 30 ELSE 0)
     + (IF from.type = KING /\ Abs(move.to.row - move.from.row) = 2 THEN 50 ELSE 0)

\* orderMoves(moves, gameState) as the index of each move in the sorted
\* array: by score, descending; the sort is stable and `moves` is in scan
\* order
Sonnet35_orderMoves(moves, gameState_) ==
  LET before(o, m) ==
        \/ Sonnet35_orderScore(o, gameState_) > Sonnet35_orderScore(m, gameState_)
        \/ /\ Sonnet35_orderScore(o, gameState_) = Sonnet35_orderScore(m, gameState_)
           /\ ScanKey(o) < ScanKey(m)
  IN [m \in moves |-> Cardinality({o \in moves : before(o, m)})]

\* what the terminal test of minimax finds in the position after each root
\* move: "mate", "stalemate" or "none"
Sonnet35_terminals(gameState_, moves) ==
  [m \in moves |->
     LET newState == Sonnet35_makeTestGameState(gameState_, m)
         currentColor == newState.currentTurn
     IN IF hasAnyLegalMove(newState.board, currentColor, newState) THEN "none"
        ELSE IF isInCheck(newState.board, currentColor) THEN "mate"
        ELSE "stalemate"]

\* minimax(newState, depth - 1, -INFINITY, INFINITY, false, botColor,
\* startTime) for the position after a root move: the terminal test is exact,
\* `rated` stands for what the search below a non-terminal position returns
Sonnet35_minimax(terminal, isMaximizing, rated) ==
  IF terminal = "mate"
  THEN (IF isMaximizing THEN -Sonnet35_CHECKMATE_SCORE ELSE Sonnet35_CHECKMATE_SCORE)
  ELSE IF terminal = "stalemate" THEN 0
  ELSE rated

\* the score of a root move in the iteration of `depth`. What the search
\* below the move returns is an input: favs[depth] is the place in
\* orderedMoves of the move it rates best for the bot (lowest, before the
\* root's negation) at that depth
Sonnet35_rootScore(move, depth, root, favs) ==
  -Sonnet35_minimax(root.terminals[move], FALSE,
                    IF root.orderedMoves[move] = favs[depth] THEN -100 * depth ELSE 0)

\* currentBestMove and currentBestScore after the inner loop of one
\* iteration has rated `evaluated`, the first moves of orderedMoves
Sonnet35_currentBest(evaluated, depth, root, favs) ==
  IF evaluated = {} THEN [move |-> nullMove, score |-> -Sonnet35_INFINITY]
  ELSE LET sc(m) == Sonnet35_rootScore(m, depth, root, favs)
           best == CHOOSE m \in evaluated :
                     \A o \in evaluated :
                        \/ sc(m) > sc(o)
                        \/ sc(m) = sc(o)
                           /\ root.orderedMoves[m] <= root.orderedMoves[o]
       IN IF sc(best) > -Sonnet35_INFINITY
          THEN [move |-> best, score |-> sc(best)]
          ELSE [move |-> nullMove, score |-> -Sonnet35_INFINITY]

\* the moves the inner loop of the iteration of `depth` rates. clock.ran is
\* the number of iterations the 80% test lets start; the last of them rates
\* only the first clock.cut moves before the 90% test breaks its loop
Sonnet35_evaluated(depth, root, clock) ==
  IF depth = clock.ran
  THEN {m \in root.moves : root.orderedMoves[m] < clock.cut}
  ELSE root.moves

RECURSIVE Sonnet35_deepen(_, _, _, _, _, _)
\* the iterative-deepening loop of makeMove from `depth` on
Sonnet35_deepen(depth, bestMove, bestScore, root, favs, clock) ==
  IF depth > Sonnet35_SEARCH_DEPTH \/ depth > clock.ran THEN bestMove
  ELSE LET cur == Sonnet35_currentBest(Sonnet35_evaluated(depth, root, clock),
                                       depth, root, favs)
       IN IF cur.move # nullMove /\ cur.score > bestScore
          THEN Sonnet35_deepen(depth + 1, cur.move, cur.score, root, favs, clock)
          ELSE Sonnet35_deepen(depth + 1, bestMove, bestScore, root, favs, clock)

\* what makeMove works on once the book has no move: the valid moves, their
\* places in orderMoves, and the terminal tests of their successors
Sonnet35_rootOf(gameState_, botColor) ==
  LET moves == getAllValidMoves(gameState_, botColor)
  IN [moves |-> moves,
      orderedMoves |-> Sonnet35_orderMoves(moves, gameState_),
      terminals |-> Sonnet35_terminals(gameState_, moves)]

\* makeMove for a root already worked out
Sonnet35_makeMoveAt(gameState_, botColor, root, k, favs, clock) ==
  LET bookMove == IF Len(gameState_.moveHistory) < 4
                  THEN Sonnet35_getOpeningBookMove(gameState_, botColor, k)
                  ELSE nullMove
  IN IF bookMove # nullMove THEN bookMove
     ELSE IF root.moves = {} THEN nullMove
     ELSE IF Cardinality(root.moves) = 1 THEN ScanNth(root.moves, 0)
     ELSE Sonnet35_deepen(1, ScanNth(root.moves, 0), -Sonnet35_INFINITY,
                          root, favs, clock)

\* Claude 3.5 Sonnet's makeMove(gameState, botColor). Inputs: k gives
\* Math.random(), favs the outcome of the search per depth, clock the
\* progress the time tests allow
Sonnet35_makeMove(gameState_, botColor, k, favs, clock) ==
  Sonnet35_makeMoveAt(gameState_, botColor, Sonnet35_rootOf(gameState_, botColor),
                      k, favs, clock)

(* claude-3-5-sonnet-20241022: the evaluator *)

RECURSIVE SumOf(_)
\* the sum of the numbers v of a set of pairs <<square, v>>: what a loop over
\* the squares adds up with score += v
SumOf(pairs) ==
  IF pairs = {} THEN 0
  ELSE LET x == CHOOSE x \in pairs : TRUE
       IN x[2] + SumOf(pairs \ {x})

\* the squares of `board` holding a piece of `color`
PiecesOf(board, color) ==
  {sq \in Squares : board[sq.row][sq.col] # null /\ board[sq.row][sq.col].color = color}

\* the squares of `board` holding a piece of `type` and `color`
PiecesOfType(board, type, color) ==
  {sq \in PiecesOf(board, color) : board[sq.row][sq.col].type = type}

Sonnet35_evaluateMaterial(board, botColor) ==
  LET material(color) ==
        SumOf({<<sq, PIECE_VALUES(board[sq.row][sq.col].type)>> :
                 sq \in PiecesOf(board, color)})
  IN material(botColor) - material(Opponent(botColor))

\* evaluateKingSafety with evaluatePawnShield; the king the scan keeps for a
\* colour is the last one it meets
Sonnet35_evaluateKingSafety(board, botColor) ==
  LET evaluatePawnShield(kingPos, color) ==
        LET direction == IF color = WHITE THEN 1 ELSE -1
            col == kingPos.col + direction
        IN 10 * Cardinality({row \in (kingPos.row - 1)..(kingPos.row + 1) :
                               /\ row \in Idx /\ col \in Idx
                               /\ board[row][col] = P(PAWN, color)})
      kings(color) == PiecesOfType(board, KING, color)
      last(set) == CHOOSE sq \in set :
                     \A o \in set : o.row * 8 + o.col <= sq.row * 8 + sq.col
      shield(color) == IF kings(color) = {} THEN 0
                       ELSE evaluatePawnShield(last(kings(color)), color)
  IN shield(botColor) - shield(Opponent(botColor))

\* the bot's own canPieceAttackSquare; its isPathClear walks as the one of
\* moveValidation does
Sonnet35_canPieceAttackSquare(board, from, to, piece) ==
  LET rowDiff == to.row - from.row
      colDiff == to.col - from.col
      straight == rowDiff = 0 \/ colDiff = 0
      diagonal == Abs(rowDiff) = Abs(colDiff)
  IN CASE piece.type = PAWN ->
            Abs(rowDiff) = 1 /\ colDiff = (IF piece.color = WHITE THEN 1 ELSE -1)
       [] piece.type = KNIGHT ->
            \/ Abs(rowDiff) = 2 /\ Abs(colDiff) = 1
            \/ Abs(rowDiff) = 1 /\ Abs(colDiff) = 2
       [] piece.type = BISHOP -> diagonal /\ isPathClear(board, from, to)
       [] piece.type = ROOK -> straight /\ isPathClear(board, from, to)
       [] piece.type = QUEEN -> (straight \/ diagonal) /\ isPathClear(board, from, to)
       [] piece.type = KING -> Abs(rowDiff) <= 1 /\ Abs(colDiff) <= 1
       [] OTHER -> FALSE

Sonnet35_evaluateCenterControl(board, botColor) ==
  LET CENTER_SQUARES == {Sq(3, 3), Sq(3, 4), Sq(4, 3), Sq(4, 4)}
      isSquareControlled(square, color) ==
        \E from \in PiecesOf(board, color) :
           Sonnet35_canPieceAttackSquare(board, from, square,
                                         board[from.row][from.col])
      occupied(square) ==
        LET piece == board[square.row][square.col]
            v == 10 + (IF piece.type = PAWN THEN 5 ELSE 0)
        IN IF piece = null THEN 0
           ELSE IF piece.color = botColor THEN v ELSE -v
      control(square) ==
        LET botControl == isSquareControlled(square, botColor)
            oppControl == isSquareControlled(square, Opponent(botColor))
        IN IF botControl /\ ~oppControl THEN 5
           ELSE IF ~botControl /\ oppControl THEN -5 ELSE 0
  IN SumOf({<<square, occupied(square) + control(square)>> :
              square \in CENTER_SQUARES})

Sonnet35_evaluatePieceActivity(gameState_, botColor) ==
  LET board == gameState_.board
      countPieceMobility(from) ==
        Cardinality({to \in Squares :
                       isValidMove(gameState_.board, from, to, gameState_)})
      developed(sq) ==
        /\ board[sq.row][sq.col].type \in {KNIGHT, BISHOP}
        /\ sq.col # (IF botColor = WHITE THEN 0 ELSE 7)
  IN SumOf({<<sq, countPieceMobility(sq) + (IF developed(sq) THEN 10 ELSE 0)>> :
              sq \in PiecesOf(board, botColor)})
     - SumOf({<<sq, countPieceMobility(sq)>> :
                sq \in PiecesOf(board, Opponent(botColor))})

\* what evaluatePawnStructure adds for a pawn of the bot (and takes away for
\* one of the opponent): isPassedPawn, isIsolatedPawn and isDoubledPawn
Sonnet35_pawnScore(board, sq, color) ==
  LET direction == IF color = WHITE THEN 1 ELSE -1
      ahead == {c \in Idx : IF color = WHITE THEN c > sq.col ELSE c < sq.col}
      isPassedPawn ==
        \A c \in ahead, r \in (sq.row - 1)..(sq.row + 1) :
           r \in Idx => board[r][c] # P(PAWN, Opponent(color))
      isIsolatedPawn ==
        \A r \in {sq.row - 1, sq.row + 1}, c \in Idx :
           r \in Idx => board[r][c] # P(PAWN, color)
      isDoubledPawn ==
        \E c \in Idx \ {sq.col} : board[sq.row][c] = P(PAWN, color)
      advancement == IF color = WHITE THEN sq.col ELSE 7 - sq.col
  IN (IF isPassedPawn THEN 10 + advancement * 5 ELSE 0)
     - (IF isIsolatedPawn THEN 10 ELSE 0)
     - (IF isDoubledPawn THEN 8 ELSE 0)

Sonnet35_evaluatePawnStructure(board, botColor) ==
  LET pawns(color) ==
        SumOf({<<sq, Sonnet35_pawnScore(board, sq, color)>> :
                 sq \in PiecesOfType(board, PAWN, color)})
  IN pawns(botColor) - pawns(Opponent(botColor))

\* detectPinsAndSkewers: along each direction of the piece, the first two
\* pieces met are both the opponent's and differ in value
Sonnet35_detectPinsAndSkewers(board, from, piece) ==
  LET diagonals == {<<1, 1>>, <<1, -1>>, <<-1, 1>>, <<-1, -1>>}
      straights == {<<0, 1>>, <<0, -1>>, <<1, 0>>, <<-1, 0>>}
      directions == (IF piece.type \in {BISHOP, QUEEN} THEN diagonals ELSE {})
                    \cup (IF piece.type \in {ROOK, QUEEN} THEN straights ELSE {})
      at(d, i) == Sq(from.row + i * d[1], from.col + i * d[2])
      met(d) == {i \in 1..7 : /\ at(d, i) \in Squares
                              /\ board[at(d, i).row][at(d, i).col] # null}
      first(set) == CHOOSE i \in set : \A j \in set : i <= j
      pieceAt(d, i) == board[at(d, i).row][at(d, i).col]
      counts(d) ==
        /\ Cardinality(met(d)) >= 2
        /\ LET i1 == first(met(d))
               i2 == first(met(d) \ {i1})
           IN /\ pieceAt(d, i1).color # piece.color
              /\ pieceAt(d, i2).color # piece.color
              /\ PIECE_VALUES(pieceAt(d, i1).type) # PIECE_VALUES(pieceAt(d, i2).type)
  IN Cardinality({d \in directions : counts(d)})

Sonnet35_evaluateTactics(gameState_, botColor) ==
  LET board == gameState_.board
      countAttackedPieces(from, piece) ==
        Cardinality({to \in PiecesOf(board, Opponent(piece.color)) :
                       Sonnet35_canPieceAttackSquare(board, from, to, piece)})
      fork(sq) ==
        IF /\ board[sq.row][sq.col].type \in {KNIGHT, PAWN}
           /\ countAttackedPieces(sq, board[sq.row][sq.col]) >= 2
        THEN 20 ELSE 0
      pins(sq) ==
        IF board[sq.row][sq.col].type \in {BISHOP, ROOK, QUEEN}
        THEN Sonnet35_detectPinsAndSkewers(board, sq, board[sq.row][sq.col]) * 15
        ELSE 0
  IN SumOf({<<sq, fork(sq) + pins(sq)>> : sq \in PiecesOf(board, botColor)})

Sonnet35_evaluateRookPlacement(board, botColor) ==
  LET rook(sq) ==
        LET piece == board[sq.row][sq.col]
            ownPawns == Cardinality({c \in Idx : board[sq.row][c] = P(PAWN, piece.color)})
            oppPawns == Cardinality({c \in Idx :
                                       board[sq.row][c] = P(PAWN, Opponent(piece.color))})
        IN IF piece.color = botColor
           THEN (IF ownPawns = 0 /\ oppPawns = 0 THEN 20
                 ELSE IF ownPawns = 0 THEN 10 ELSE 0)
           ELSE (IF ownPawns = 0 /\ oppPawns = 0 THEN -20
                 ELSE IF oppPawns = 0 THEN -10 ELSE 0)
  IN SumOf({<<sq, rook(sq)>> :
              sq \in PiecesOfType(board, ROOK, WHITE) \cup PiecesOfType(board, ROOK, BLACK)})

Sonnet35_evaluateBishopPair(board, botColor) ==
  LET whiteBishops == Cardinality(PiecesOfType(board, BISHOP, WHITE))
      blackBishops == Cardinality(PiecesOfType(board, BISHOP, BLACK))
  IN IF botColor = WHITE /\ whiteBishops >= 2 THEN 15
     ELSE IF botColor = BLACK /\ blackBishops >= 2 THEN 15
     ELSE IF botColor = WHITE /\ blackBishops >= 2 THEN -15
     ELSE IF botColor = BLACK /\ whiteBishops >= 2 THEN -15
     ELSE 0

\* evaluateKnightOutposts with isKnightOnOutpost
Sonnet35_evaluateKnightOutposts(board, botColor) ==
  LET pawnAt(row, col, c) == row \in Idx /\ col \in Idx /\ board[row][col] = P(PAWN, c)
      isKnightOnOutpost(pos, color) ==
        LET direction == IF color = WHITE THEN 1 ELSE -1
        IN /\ \E dRow \in {-1, 1} : pawnAt(pos.row + dRow, pos.col - direction, color)
           /\ ~\E dRow \in {-1, 1} :
                 pawnAt(pos.row + dRow, pos.col + direction, Opponent(color))
      outposts(color) ==
        Cardinality({sq \in PiecesOfType(board, KNIGHT, color) :
                       isKnightOnOutpost(sq, color)})
  IN 20 * outposts(botColor) - 20 * outposts(Opponent(botColor))

Sonnet35_evaluateStrategy(gameState_, botColor) ==
  Sonnet35_evaluateRookPlacement(gameState_.board, botColor)
  + Sonnet35_evaluateBishopPair(gameState_.board, botColor)
  + Sonnet35_evaluateKnightOutposts(gameState_.board, botColor)

\* evaluatePosition(gameState, botColor), with the WEIGHTS written out
Sonnet35_evaluatePosition(gameState_, botColor) ==
  LET board == gameState_.board
      currentColor == gameState_.currentTurn
  IN IF ~hasAnyLegalMove(board, currentColor, gameState_)
     THEN IF isInCheck(board, currentColor)
          THEN (IF currentColor = botColor THEN -Sonnet35_CHECKMATE_SCORE
                ELSE Sonnet35_CHECKMATE_SCORE)
          ELSE 0
     ELSE Sonnet35_evaluateMaterial(board, botColor) * 100
          + Sonnet35_evaluateKingSafety(board, botColor) * 50
          + Sonnet35_evaluateCenterControl(board, botColor) * 30
          + Sonnet35_evaluatePieceActivity(gameState_, botColor) * 20
          + Sonnet35_evaluatePawnStructure(board, botColor) * 15
          + Sonnet35_evaluateTactics(gameState_, botColor) * 40
          + Sonnet35_evaluateStrategy(gameState_, botColor) * 10

---------------------------------------------------------------------------
(* gemini-2.5-pro-20250626 *)

GEMINI == "gemini-2.5-pro-20250626"

Gemini_MAX_SEARCH_DEPTH == 10

RECURSIVE Concat(_)
\* the arrays of `seqs` one after the other
Concat(seqs) ==
  IF seqs = << >> THEN << >> ELSE Head(seqs) \o Concat(Tail(seqs))

\* generatePseudoLegalMoves(board, piece, from, gameState): the target
\* squares in the order the generators push them. The king's generator has
\* no castling
Gemini_generatePseudoLegalMoves(board, piece, from, gameState_) ==
  LET knightMoves == << <<-2, -1>>, <<-2, 1>>, <<-1, -2>>, <<-1, 2>>,
                        <<1, -2>>, <<1, 2>>, <<2, -1>>, <<2, 1>> >>
      kingMoves == << <<-1, -1>>, <<-1, 0>>, <<-1, 1>>, <<0, -1>>,
                      <<0, 1>>, <<1, -1>>, <<1, 0>>, <<1, 1>> >>
      diagonals == << <<-1, -1>>, <<-1, 1>>, <<1, -1>>, <<1, 1>> >>
      straights == << <<-1, 0>>, <<1, 0>>, <<0, -1>>, <<0, 1>> >>
      r == from.row
      c == from.col
      free(to) == \/ board[to.row][to.col] = null
                  \/ board[to.row][to.col].color # piece.color
      onBoard(to) == to.row \in Idx /\ to.col \in Idx
      \* getKnightPseudoLegalMoves, getKingPseudoLegalMoves
      steps(offsets) ==
        LET reach(to) == onBoard(to) /\ free(to)
        IN SelectSeq([i \in 1..Len(offsets) |-> Sq(r + offsets[i][1], c + offsets[i][2])],
                     reach)
      \* getSlidingPseudoLegalMoves, one direction
      ray(d) ==
        LET at(i) == Sq(r + i * d[1], c + i * d[2])
            open(i) == /\ onBoard(at(i))
                       /\ \A j \in 1..(i - 1) : board[at(j).row][at(j).col] = null
                       /\ free(at(i))
            reached == SelectSeq([i \in 1..7 |-> i], open)
        IN [k \in 1..Len(reached) |-> at(reached[k])]
      sliding(directions) ==
        Concat([i \in 1..Len(directions) |-> ray(directions[i])])
      \* getPawnPseudoLegalMoves
      direction == IF piece.color = WHITE THEN 1 ELSE -1
      startCol == IF piece.color = WHITE THEN 1 ELSE 6
      ahead(k) == board[r][c + k * direction]
      single == IF c + direction \in Idx /\ ahead(1) = null
                THEN << Sq(r, c + direction) >> ELSE << >>
      double == IF c = startCol /\ ahead(1) = null /\ ahead(2) = null
                THEN << Sq(r, c + 2 * direction) >> ELSE << >>
      capture(captureRow) ==
        IF captureRow \in Idx /\ c + direction \in Idx
        THEN LET to == Sq(captureRow, c + direction)
                 target == board[to.row][to.col]
             IN (IF target # null /\ target.color # piece.color
                 THEN << to >> ELSE << >>)
                \o (IF gameState_.enPassantTarget = to THEN << to >> ELSE << >>)
        ELSE << >>
  IN CASE piece.type = PAWN -> single \o double \o capture(r - 1) \o capture(r + 1)
       [] piece.type = KNIGHT -> steps(knightMoves)
       [] piece.type = BISHOP -> sliding(diagonals)
       [] piece.type = ROOK -> sliding(straights)
       [] piece.type = QUEEN -> sliding(diagonals \o straights)
       [] piece.type = KING -> steps(kingMoves)

\* makeTestMove(board, from, to, gameState): the piece goes from `from` to
\* `to`; a pawn that moves onto the en passant target empties the square
\* [from.row][to.col]; a pawn on its last column becomes a queen. A castling
\* king moves alone
Gemini_makeTestMove(board, from, to, gameState_) ==
  LET piece == board[from.row][from.col]
      moved == makeMove(board, from, to)
      taken == IF /\ piece.type = PAWN
                  /\ gameState_.enPassantTarget # nullSquare
                  /\ to = gameState_.enPassantTarget
               THEN [moved EXCEPT ![from.row][to.col] = null]
               ELSE moved
      promotionRank == IF piece.color = WHITE THEN 7 ELSE 0
  IN IF piece.type = PAWN /\ to.col = promotionRank
     THEN [taken EXCEPT ![to.row][to.col] = P(QUEEN, piece.color)]
     ELSE taken

\* getAllValidMoves(gameState, color), as the array the loops build
Gemini_getAllValidMoves(gameState_, color) ==
  LET board == gameState_.board
      tempGameState == [gameState_ EXCEPT !.currentTurn = color]
      movesFrom(from) ==
        LET piece == board[from.row][from.col]
            safe(to) == ~isInCheck(Gemini_makeTestMove(board, from, to, tempGameState),
                                   color)
        IN IF piece = null \/ piece.color # color THEN << >>
           ELSE LET tos == SelectSeq(Gemini_generatePseudoLegalMoves(
                                       board, piece, from, tempGameState), safe)
                IN [k \in 1..Len(tos) |-> [from |-> from, to |-> tos[k]]]
  IN Concat([i \in 1..64 |-> movesFrom(Sq((i - 1) \div 8, (i - 1) % 8))])

\* applyMoveToGameState(gameState, move): board, side to move, castling
\* rights and en passant target after `move`
Gemini_applyMoveToGameState(gameState_, move) ==
  LET piece == gameState_.board[move.from.row][move.from.col]
      rights == gameState_.castlingRights
      colDiff == move.to.col - move.from.col
  IN [gameState_ EXCEPT
        !.board = Gemini_makeTestMove(gameState_.board, move.from, move.to, gameState_),
        !.currentTurn = Opponent(gameState_.currentTurn),
        !.castlingRights =
           [whiteKingSide |-> /\ rights.whiteKingSide
                              /\ ~(piece.type = KING /\ piece.color = WHITE)
                              /\ move.from # Sq(7, 0),
            whiteQueenSide |-> /\ rights.whiteQueenSide
                               /\ ~(piece.type = KING /\ piece.color = WHITE)
                               /\ move.from # Sq(0, 0),
            blackKingSide |-> /\ rights.blackKingSide
                              /\ ~(piece.type = KING /\ piece.color = BLACK)
                              /\ move.from # Sq(7, 7),
            blackQueenSide |-> /\ rights.blackQueenSide
                               /\ ~(piece.type = KING /\ piece.color = BLACK)
                               /\ move.from # Sq(0, 7)],
        !.enPassantTarget =
           IF piece.type = PAWN /\ Abs(colDiff) = 2
           THEN Sq(move.from.row, move.from.col + colDiff \div 2)
           ELSE nullSquare,
        !.moveHistory = Append(gameState_.moveHistory, move)]

\* getInitialGameState()
Gemini_getInitialGameState == createGameState("human", "human")

\* generatePositionKey(gameState): the text is made of each square's colour
\* letter and type (or '-'), the side to move, the letters of the castling
\* rights that are left, and the en passant target's digits (or '-')
Gemini_generatePositionKey(gameState_) ==
  [board |-> [r \in Idx |-> [c \in Idx |->
                IF gameState_.board[r][c] = null THEN << "-" >>
                ELSE << FirstLetter(gameState_.board[r][c].color),
                        gameState_.board[r][c].type >>]],
   currentTurn |-> gameState_.currentTurn,
   castling |-> << gameState_.castlingRights.whiteKingSide,
                   gameState_.castlingRights.whiteQueenSide,
                   gameState_.castlingRights.blackKingSide,
                   gameState_.castlingRights.blackQueenSide >>,
   enPassant |-> IF gameState_.enPassantTarget = nullSquare THEN << "-" >>
                 ELSE << gameState_.enPassantTarget.row, gameState_.enPassantTarget.col >>]

RECURSIVE Gemini_replay(_, _)
\* the values of tempState in makeMove: the initial state and the states
\* after 1, 2, .. k moves of the history have been applied to it
Gemini_replay(moveHistory, k) ==
  IF k = 0 THEN << Gemini_getInitialGameState >>
  ELSE LET before == Gemini_replay(moveHistory, k - 1)
       IN Append(before, Gemini_applyMoveToGameState(before[k], moveHistory[k]))

\* a history entry whose `from` square is empty on the replayed board: the
\* replay reads piece.type of null, and makeMove throws a TypeError
Gemini_replayThrows(moveHistory) ==
  LET states == Gemini_replay(moveHistory, Len(moveHistory))
  IN \E k \in 1..Len(moveHistory) :
       states[k].board[moveHistory[k].from.row][moveHistory[k].from.col] = null

\* the keys makeMove counts in positionCounts, one entry for each time
Gemini_positionKeys(moveHistory) ==
  LET states == Gemini_replay(moveHistory, Len(moveHistory))
  IN [k \in 1..Len(states) |-> Gemini_generatePositionKey(states[k])]

\* (positionCounts[nextKey] || 0) >= 2 for the position after `move`: the
\* test of searchRoot, minimax and quiescenceSearch
Gemini_isRepetition(gameState_, keys, move) ==
  Count(keys, Gemini_generatePositionKey(Gemini_applyMoveToGameState(gameState_, move))) >= 2

\* moveValue in searchRoot; `rated` is what minimax returns for the move
Gemini_moveValue(gameState_, keys, move, rated) ==
  IF Gemini_isRepetition(gameState_, keys, move) THEN 0 ELSE rated

\* timeLimit of makeMove
Gemini_timeLimit(moveNumber) ==
  IF moveNumber <= 10 THEN 500
  ELSE IF moveNumber <= 20 THEN 1000
  ELSE 2000

\* what makeMove computes once for a call: the valid moves and those of them
\* that the repetition test gives the value 0
Gemini_rootOf(gameState_, botColor) ==
  LET validMoves == Gemini_getAllValidMoves(gameState_, botColor)
      keys == Gemini_positionKeys(gameState_.moveHistory)
  IN [validMoves |-> validMoves,
      repeats |-> {validMoves[i] : i \in {j \in 1..Len(validMoves) :
                     Gemini_isRepetition(gameState_, keys, validMoves[j])}}]

\* searchRoot(depth, ..).move. Inputs: minimax rates the move `fav` above 0
\* and every other move below 0; k gives the Math.random() by which
\* orderMoves arranges moves of the same value
Gemini_searchRoot(root, fav, k) ==
  LET moveValue(m) == IF m \in root.repeats THEN 0
                      ELSE IF m = fav THEN 50 ELSE -50
      valueOf(i) == moveValue(root.validMoves[i])
      isBest(m) == \A i \in 1..Len(root.validMoves) : valueOf(i) <= moveValue(m)
      bestMoves == SelectSeq(root.validMoves, isBest)
  IN bestMoves[randomIndex(Len(bestMoves), k) + 1]

\* a loop body that replaces bestMove after the time limit as well
Gemini_commitLate(bestMove, result, inTime) ==
  IF result # nullMove THEN result ELSE bestMove

\* the body of the iterative deepening loop after searchRoot has returned or
\* thrown: bestMove is replaced unless the time limit has passed
Gemini_commit(bestMove, result, inTime) ==
  IF inTime /\ result # nullMove THEN result ELSE bestMove

\* the clock and minimax's ratings during a call: the first `done` depths
\* end within the time limit, favs[1] is the favourite of depth 1 and
\* favs[2] that of the deeper ones; the time limit passes during the next
\* depth, whose favourite is `aborted`
Gemini_favOf(run, currentDepth) ==
  IF currentDepth > run.done THEN run.aborted
  ELSE IF currentDepth = 1 THEN run.favs[1] ELSE run.favs[2]

\* the moves an iteration can use as favourite when the moves of
\* `candidates` are those that minimax can rate above 0
Gemini_Favs(candidates) == candidates \cup {nullMove}

\* searchRoot's result for every favourite and every k
Gemini_searches(root, favourites) ==
  [fav \in favourites |-> [k \in Randoms |-> Gemini_searchRoot(root, fav, k)]]

RECURSIVE Gemini_deepen(_, _, _, _, _)
\* the iterative deepening loop of makeMove from currentDepth on; `found` is
\* Gemini_searches for the root of the call
Gemini_deepen(currentDepth, bestMove, found, run, k) ==
  IF currentDepth > Gemini_MAX_SEARCH_DEPTH THEN bestMove
  ELSE LET result == found[Gemini_favOf(run, currentDepth)][k]
       IN IF currentDepth > run.done
          THEN Gemini_commit(bestMove, result, FALSE)
          ELSE Gemini_deepen(currentDepth + 1, Gemini_commit(bestMove, result, TRUE),
                             found, run, k)

\* makeMove(gameState, botColor) for the root of the call
Gemini_makeMoveAt(root, found, run, k) ==
  IF root.validMoves = << >> THEN nullMove
  ELSE Gemini_deepen(1, root.validMoves[1], found, run, k)

Gemini_makeMove(gameState_, botColor, run, k) ==
  LET root == Gemini_rootOf(gameState_, botColor)
      favourites == {run.favs[1], run.favs[2], run.aborted}
  IN Gemini_makeMoveAt(root, Gemini_searches(root, favourites), run, k)

---------------------------------------------------------------------------
(* App *)

\* the player types of this model: a human, and a bot whose code the host
\* does not look into
Bots == {"random"}
PlayerTypes == {"human"} \cup Bots

\* useState(false); no handler ever sets it
isProcessingBotMove == FALSE

currentPlayer(gs) ==
  IF gs.currentTurn = WHITE THEN gs.whitePlayer ELSE gs.blackPlayer

\* the condition under which the bot effect sets its timer (and registers its
\* cleanup)
BotToMove(gs, started) ==
  /\ started
  /\ currentPlayer(gs) # "human"
  /\ gs.gameStatus \in {"playing", "check"}

\* the effect's dependency array (botDelay is fixed)
EffectDeps(gs, started) ==
  <<gs.currentTurn, gs.whitePlayer, gs.blackPlayer, gs.gameStatus, started>>

\* an effect whose cleanup leaves the timer of the last run pending
EffectTimerKept(gs, started, gs2, started2, tm) ==
  IF EffectDeps(gs, started) = EffectDeps(gs2, started2) THEN tm
  ELSE IF BotToMove(gs2, started2) THEN <<gs2>>
  ELSE tm

\* the timer after React has re-run the bot effect for a state change
EffectTimer(gs, started, gs2, started2, tm) ==
  IF EffectDeps(gs, started) = EffectDeps(gs2, started2) THEN tm
  ELSE IF BotToMove(gs2, started2) THEN <<gs2>>
  ELSE <<>>

\* botWorkerRef after React has re-run the bot effect for a state change
EffectWorker(gs, started, gs2, started2, ref) ==
  IF EffectDeps(gs, started) = EffectDeps(gs2, started2) THEN ref
  ELSE IF BotToMove(gs, started) THEN <<>>
  ELSE ref

\* the state after the first render, with both players drawn from `bots`
\* the engines' structures as their constructors leave them
EnginesIdle ==
  /\ table = <<>>
  /\ age = 0
  /\ evicted = {}
  /\ opusNode = [at |-> "idle"]
  /\ opusMates = {}
  /\ searchNode = [at |-> "idle"]
  /\ killerMoves = [ply \in 0..(MAX_DEPTH - 1) |-> <<nullMove, nullMove>>]
  /\ cutoffs = {}

InitWith(bots, lines) ==
  /\ \E wp \in bots, bp \in bots : gameState = createGameState(wp, bp)
  /\ gameStarted = FALSE
  /\ lastMove = nullMove
  /\ timer = <<>>
  /\ botWorkerRef = <<>>
  /\ crashed = FALSE
  /\ line \in lines
  /\ EnginesIdle

Init == InitWith(Bots, 1..Len(TestGames))

\* the state change of a handler that calls executeMove(from, to) and
\* setLastMove; `ref` is botWorkerRef as the handler leaves it
Executes(from, to, ref) ==
  IF executeMoveThrows(gameState, from, to)
  THEN /\ crashed' = TRUE
       /\ timer' = <<>>
       /\ botWorkerRef' = <<>>
       /\ UNCHANGED <<engineVars, gameState, gameStarted, lastMove, line>>
  ELSE /\ gameState' = executeMove(gameState, from, to)
       /\ lastMove' = [from |-> from, to |-> to]
       /\ timer' = EffectTimer(gameState, gameStarted, gameState', gameStarted, timer)
       /\ botWorkerRef' =
            EffectWorker(gameState, gameStarted, gameState', gameStarted, ref)
       /\ UNCHANGED <<engineVars, gameStarted, crashed, line>>

handleMoveAccepts(from, to) ==
  /\ gameStarted
  /\ ~isProcessingBotMove
  /\ currentPlayer(gameState) = "human"
  /\ isValidMove(gameState.board, from, to, gameState)

handleMove(from, to) ==
  /\ ~crashed
  /\ IF handleMoveAccepts(from, to)
     THEN Executes(from, to, botWorkerRef)
     ELSE UNCHANGED vars

handlePlayerTypeChange(color, playerType) ==
  /\ ~crashed
  /\ IF ~gameStarted
     THEN /\ gameState' = IF color = WHITE
                          THEN [gameState EXCEPT !.whitePlayer = playerType]
                          ELSE [gameState EXCEPT !.blackPlayer = playerType]
          /\ timer' = EffectTimer(gameState, gameStarted, gameState', gameStarted, timer)
          /\ botWorkerRef' =
               EffectWorker(gameState, gameStarted, gameState', gameStarted, botWorkerRef)
          /\ UNCHANGED <<engineVars, gameStarted, lastMove, crashed, line>>
     ELSE UNCHANGED vars

startGame ==
  /\ ~crashed
  /\ ~gameStarted
  /\ gameStarted' = TRUE
  /\ timer' = EffectTimer(gameState, gameStarted, gameState, TRUE, timer)
  /\ botWorkerRef' = EffectWorker(gameState, gameStarted, gameState, TRUE, botWorkerRef)
  /\ UNCHANGED <<engineVars, gameState, lastMove, crashed, line>>

resetGame ==
  /\ ~crashed
  /\ gameStarted
  /\ gameState' = createGameState(gameState.whitePlayer, gameState.blackPlayer)
  /\ gameStarted' = FALSE
  /\ lastMove' = nullMove
  /\ timer' = EffectTimer(gameState, gameStarted, gameState', FALSE, timer)
  /\ botWorkerRef' = EffectWorker(gameState, gameStarted, gameState', FALSE, <<>>)
  /\ UNCHANGED <<engineVars, crashed, line>>

\* the setTimeout callback: a worker is created, stored in botWorkerRef and
\* sent the game state the effect closed over
timerFires ==
  /\ ~crashed
  /\ timer # <<>>
  /\ botWorkerRef' = <<[gameState |-> timer[1], botType |-> currentPlayer(timer[1])]>>
  /\ timer' = <<>>
  /\ UNCHANGED <<engineVars, gameState, gameStarted, lastMove, crashed, line>>

\* worker.onmessage with event.data = {success, move}
workerOnMessage(success, move) ==
  /\ ~crashed
  /\ botWorkerRef # <<>>
  /\ LET closed == botWorkerRef[1].gameState
     IN IF /\ success
           /\ move # nullMove
           /\ isValidMove(closed.board, move.from, move.to, closed)
        THEN Executes(move.from, move.to, <<>>)
        ELSE /\ botWorkerRef' = <<>>
             /\ UNCHANGED <<engineVars, gameState, gameStarted, lastMove, timer, crashed, line>>

workerOnError ==
  /\ ~crashed
  /\ botWorkerRef # <<>>
  /\ botWorkerRef' = <<>>
  /\ UNCHANGED <<engineVars, gameState, gameStarted, lastMove, timer, crashed, line>>

Clicks == Offered(line, Len(gameState.moveHistory))

\* the engines are asked for a move in the first MaxEnginePly plies of a game
MaxEnginePly == 5

\* the courses search's loop can take when the transposition table holds
\* moves of `candidates`
ULTRATHINK_Runs(candidates) ==
  {[pvs |-> << p1, p2 >>, aborted |-> pa, done |-> done] :
     p1 \in candidates \cup {nullMove}, p2 \in candidates \cup {nullMove},
     pa \in candidates \cup {nullMove}, done \in 0..2}

ULTRATHINK_returns(gameState_, botColor, candidates) ==
  LET founds == {ULTRATHINK_found(run, Len(gameState_.moveHistory)) :
                   run \in ULTRATHINK_Runs(candidates)}
  IN {ULTRATHINK_makeMove(gameState_, botColor, k, threw, found) :
        k \in Randoms, threw \in BOOLEAN, found \in founds}

Sonnet4_returns(gameState_, botColor, candidates) ==
  {Sonnet4_makeMove(gameState_, botColor, order, k, atOnce, best) :
     order \in PieceOrders, k \in Randoms, atOnce \in BOOLEAN, best \in candidates}

\* the progress the clock can allow Claude 3.5 Sonnet's loop over n moves
Sonnet35_Clocks(n) ==
  {[ran |-> ran, cut |-> cut] : ran \in 0..Sonnet35_SEARCH_DEPTH, cut \in {1, n}}

\* the clock never expires: every iteration rates all n moves
Sonnet35_noTimeout(n) == [ran |-> Sonnet35_SEARCH_DEPTH, cut |-> n]

\* the favourites of the iterations: one for depth 1, one for the deeper ones
Sonnet35_Favs ==
  {<<f1, f2, f2>> : f1 \in 0..2, f2 \in 0..2}

Sonnet35_returns(gameState_, botColor) ==
  LET root == Sonnet35_rootOf(gameState_, botColor)
  IN {Sonnet35_makeMoveAt(gameState_, botColor, root, k, favs, clock) :
        k \in Randoms, favs \in Sonnet35_Favs,
        clock \in Sonnet35_Clocks(Cardinality(root.moves))}

\* the courses Gemini's loop can take: the depths that end within the time
\* limit are none, one, two or all of them
Gemini_Runs(candidates) ==
  {[favs |-> << f1, f2 >>, aborted |-> fa, done |-> done] :
     f1 \in Gemini_Favs(candidates), f2 \in Gemini_Favs(candidates),
     fa \in Gemini_Favs(candidates), done \in {0, 1, 2, Gemini_MAX_SEARCH_DEPTH}}

\* the moves makeMove can return; none when it throws
Gemini_returns(gameState_, botColor, candidates) ==
  LET root == Gemini_rootOf(gameState_, botColor)
      found == Gemini_searches(root, Gemini_Favs(candidates))
  IN IF root.validMoves # << >> /\ Gemini_replayThrows(gameState_.moveHistory)
     THEN {}
     ELSE {Gemini_makeMoveAt(root, found, run, k) :
             run \in Gemini_Runs(candidates), k \in Randoms}

\* the test games on which the engines that deepen until a time limit are
\* compared, and the plies of these games in which the engines are asked
TimedGames == {11}
MaxTimedPly == 3

\* the calls in which the engines of this model reply: those of the first
\* MaxEnginePly plies (MaxTimedPly in a timed game) and, in a long game,
\* those in which every move so far has been one of the test game
EngineReplies(l, gs) ==
  \/ Len(gs.moveHistory) < (IF l \in TimedGames THEN MaxTimedPly ELSE MaxEnginePly)
  \/ /\ l \in LongGames
     /\ \A i \in 1..Len(gs.moveHistory) :
          [from |-> gs.moveHistory[i].from, to |-> gs.moveHistory[i].to]
            \in Offered(l, i - 1)

\* event.data of the messages the running worker can post: the bot's
\* makeMove is applied to the game state and the turn the worker was sent
WorkerReplies ==
  IF botWorkerRef = <<>> THEN {}
  ELSE LET closed == botWorkerRef[1].gameState
           botType == botWorkerRef[1].botType
           n == Len(closed.moveHistory)
           offered == Offered(line, n)
       IN IF botType = ULTRATHINK
          THEN {[success |-> TRUE, move |-> r] :
                  r \in IF EngineReplies(line, closed)
                        THEN ULTRATHINK_returns(closed, closed.currentTurn, offered)
                        ELSE {}}
          ELSE IF botType = SONNET4
          THEN {[success |-> TRUE, move |-> r] :
                  r \in IF EngineReplies(line, closed)
                        THEN Sonnet4_returns(closed, closed.currentTurn, offered)
                        ELSE {}}
          ELSE IF botType = GEMINI
          THEN {[success |-> TRUE, move |-> r] :
                  r \in IF EngineReplies(line, closed)
                        THEN Gemini_returns(closed, closed.currentTurn, offered)
                        ELSE {}}
          ELSE IF botType = SONNET35
          THEN {[success |-> TRUE, move |-> r] :
                  r \in IF n < MaxEnginePly
                        THEN Sonnet35_returns(closed, closed.currentTurn)
                        ELSE {}}
          ELSE {[success |-> b, move |-> m] :
                  b \in BOOLEAN, m \in offered \cup {nullMove}}

Next ==
  \/ \E m \in Clicks : handleMove(m.from, m.to)
  \/ \E color \in COLORS, playerType \in PlayerTypes :
       handlePlayerTypeChange(color, playerType)
  \/ startGame
  \/ resetGame
  \/ timerFires
  \/ \E reply \in WorkerReplies : workerOnMessage(reply.success, reply.move)
  \/ workerOnError

Spec == Init /\ [][Next]_vars

---------------------------------------------------------------------------
(* The host with the ULTRATHINK engine as the bot *)

\* the test games the engines are run on
EngineGames == {Len(TestGames)}

InitUltra == InitWith({ULTRATHINK}, EngineGames)

NextUltra ==
  \/ \E m \in Clicks : handleMove(m.from, m.to)
  \/ \E color \in COLORS, playerType \in {"human", ULTRATHINK} :
       handlePlayerTypeChange(color, playerType)
  \/ startGame
  \/ resetGame
  \/ timerFires
  \/ \E reply \in WorkerReplies : workerOnMessage(reply.success, reply.move)
  \/ workerOnError

SpecUltra == InitUltra /\ [][NextUltra]_vars

(* The host with the Sonnet 4 engine as the bot *)

\* the test games Sonnet 4 is run on
Sonnet4Games == {1, 2, Len(TestGames)}

InitSonnet4 == InitWith({SONNET4}, Sonnet4Games)

NextSonnet4 ==
  \/ \E m \in Clicks : handleMove(m.from, m.to)
  \/ \E color \in COLORS, playerType \in {"human", SONNET4} :
       handlePlayerTypeChange(color, playerType)
  \/ startGame
  \/ resetGame
  \/ timerFires
  \/ \E reply \in WorkerReplies : workerOnMessage(reply.success, reply.move)
  \/ workerOnError

SpecSonnet4 == InitSonnet4 /\ [][NextSonnet4]_vars

(* The host with the Claude 3.5 Sonnet engine as the bot *)

\* the test games Claude 3.5 Sonnet is run on
Sonnet35Games == {2, Len(TestGames)}

InitSonnet35 == InitWith({SONNET35}, Sonnet35Games)

NextSonnet35 ==
  \/ \E m \in Clicks : handleMove(m.from, m.to)
  \/ \E color \in COLORS, playerType \in {"human", SONNET35} :
       handlePlayerTypeChange(color, playerType)
  \/ startGame
  \/ resetGame
  \/ timerFires
  \/ \E reply \in WorkerReplies : workerOnMessage(reply.success, reply.move)
  \/ workerOnError

SpecSonnet35 == InitSonnet35 /\ [][NextSonnet35]_vars

(* The host with the Sonnet 4 and Gemini 2.5 Pro engines in long games *)

InitLong == InitWith({SONNET4, GEMINI}, LongGames)

NextLong ==
  \/ \E m \in Clicks : handleMove(m.from, m.to)
  \/ \E color \in COLORS, playerType \in {"human", SONNET4, GEMINI} :
       handlePlayerTypeChange(color, playerType)
  \/ startGame
  \/ resetGame
  \/ timerFires
  \/ \E reply \in WorkerReplies : workerOnMessage(reply.success, reply.move)
  \/ workerOnError

SpecLong == InitLong /\ [][NextLong]_vars

(* The host with the engines that deepen until a time limit *)

InitTimed == InitWith({GEMINI, ULTRATHINK}, TimedGames)

NextTimed ==
  \/ \E m \in Clicks : handleMove(m.from, m.to)
  \/ \E color \in COLORS, playerType \in {"human", GEMINI, ULTRATHINK} :
       handlePlayerTypeChange(color, playerType)
  \/ startGame
  \/ resetGame
  \/ timerFires
  \/ \E reply \in WorkerReplies : workerOnMessage(reply.success, reply.move)
  \/ workerOnError

SpecTimed == InitTimed /\ [][NextTimed]_vars

---------------------------------------------------------------------------
(* claude-opus-4-20250514-ULTRATHINK: TranspositionTable *)

\* this.size, the number of entries the table may hold (8388608 for the
\* 256 MB of the search engine), scaled down
TableSize == 2

\* the depths and ages of the store calls followed; one hash more than the
\* table holds
MaxStoreDepth == 1
MaxAge == 2
Hashes == 1..(TableSize + 1)

\* what Map.get returns for a hash the table does not hold
undefined == [hash |-> -1]

\* probe(hash): table.get(hash)
TranspositionTable_probe(map, hash) ==
  IF \E i \in 1..Len(map) : map[i].hash = hash
  THEN map[CHOOSE i \in 1..Len(map) : map[i].hash = hash]
  ELSE undefined

\* table.set(hash, entry): an entry of that hash is replaced where it stands,
\* a new hash is added at the end of the Map's order
TranspositionTable_set(map, entry) ==
  IF \E i \in 1..Len(map) : map[i].hash = entry.hash
  THEN [i \in 1..Len(map) |-> IF map[i].hash = entry.hash THEN entry ELSE map[i]]
  ELSE Append(map, entry)

\* entries.sort((a, b) => a[1].age - b[1].age): ascending age, entries of
\* the same age in the order they had (Array.prototype.sort is stable)
RECURSIVE TranspositionTable_sorted(_)
TranspositionTable_sorted(entries) ==
  IF entries = <<>> THEN <<>>
  ELSE LET n == Len(entries)
           init == TranspositionTable_sorted(SubSeq(entries, 1, n - 1))
           e == entries[n]
           k == Cardinality({i \in 1..Len(init) : init[i].age <= e.age})
       IN SubSeq(init, 1, k) \o <<e>> \o SubSeq(init, k + 1, Len(init))

\* the condition under which store writes: no entry, deeper, or newer
TranspositionTable_writes(map, hash, depth, age_) ==
  LET existing == TranspositionTable_probe(map, hash)
  IN existing = undefined \/ depth >= existing.depth \/ age_ > existing.age

\* a store that deletes the entries of the greatest age
TranspositionTable_storeNewestOut(map, size, hash, depth, score, flag, move, age_) ==
  IF TranspositionTable_writes(map, hash, depth, age_)
  THEN LET written == TranspositionTable_set(map,
                        [hash |-> hash, depth |-> depth, score |-> score,
                         flag |-> flag, move |-> move, age |-> age_])
           toRemove == Len(written) - size
           sorted == TranspositionTable_sorted(written)
           entries == [i \in 1..Len(sorted) |-> sorted[Len(sorted) + 1 - i]]
           removed == {entries[i] : i \in 1..toRemove}
       IN [table |-> SelectSeq(written, LAMBDA e : e \notin removed),
           evicted |-> removed]
  ELSE [table |-> map, evicted |-> {}]

\* store(hash, depth, score, flag, move, age) on a table of `size` entries:
\* the table it leaves and the entries it deleted
TranspositionTable_store(map, size, hash, depth, score, flag, move, age_) ==
  IF TranspositionTable_writes(map, hash, depth, age_)
  THEN LET written == TranspositionTable_set(map,
                        [hash |-> hash, depth |-> depth, score |-> score,
                         flag |-> flag, move |-> move, age |-> age_])
           toRemove == Len(written) - size
           entries == TranspositionTable_sorted(written)
           removed == {entries[i] : i \in 1..toRemove}
       IN [table |-> SelectSeq(written, LAMBDA e : e \notin removed),
           evicted |-> removed]
  ELSE [table |-> map, evicted |-> {}]

\* the result alphaBeta stores: here a bound after a cutoff
StoredResults ==
  { [score |-> 50, flag |-> "lower", move |-> Mv(4, 1, 4, 3)] }

\* search(): this.age++
SearchEngine_search ==
  /\ age < MaxAge
  /\ age' = age + 1
  /\ UNCHANGED <<table, evicted, hostVars, opusVars, searchNode, killerVars>>

\* alphaBeta: this.transpositionTable.store(hash, depth, ..., this.age)
SearchEngine_store(hash, depth, result) ==
  /\ age >= 1
  /\ LET r == TranspositionTable_store(table, TableSize, hash, depth,
                                       result.score, result.flag, result.move, age)
     IN /\ table' = r.table
        /\ evicted' = r.evicted
  /\ UNCHANGED <<age, hostVars, opusVars, searchNode, killerVars>>

\* the host at rest: two humans, no game started
HostIdle == InitWith({"human"}, {1})

InitTable == HostIdle

NextTable ==
  \/ SearchEngine_search
  \/ \E hash \in Hashes, depth \in 0..MaxStoreDepth, result \in StoredResults :
       SearchEngine_store(hash, depth, result)

SpecTable == InitTable /\ [][NextTable]_vars

---------------------------------------------------------------------------
(* claude-opus-4-20250514-ULTRATHINK: SearchEngine. One path of the search   *)
(* tree is followed from the root of each iteration; a call that returns     *)
(* stands for the rest of its iteration, whose moves are finitely many.      *)

\* the greatest number of moves searched before a move that is reduced
MaxSearchedMoves == 8

\* the recursion depth up to which calls are followed
MaxStack == 2 * MAX_DEPTH + QUIESCENCE_DEPTH + 2

\* an alphaBeta without its test "Prevent stack overflow"
SearchEngine_stackGuardOff(ply) ==
  FALSE

\* alphaBeta: "Prevent stack overflow"
SearchEngine_stackGuard(ply) ==
  ply >= MAX_DEPTH * 2

\* alphaBeta: the depth after the check extension
SearchEngine_extended(depth, inCheck) ==
  IF inCheck /\ depth < MAX_DEPTH THEN depth + 1 ELSE depth

\* Math.min(Math.floor(Math.sqrt(depth) * Math.sqrt(searchedMoves) / 2),
\* depth - 1); where depth * searchedMoves / 4 is a perfect square the rounded
\* product of the two roots may fall below it
SearchEngine_reductions(depth, searchedMoves) ==
  LET r == CHOOSE x \in 0..(depth * searchedMoves) :
             /\ 4 * x * x <= depth * searchedMoves
             /\ 4 * (x + 1) * (x + 1) > depth * searchedMoves
      floors == IF r > 0 /\ 4 * r * r = depth * searchedMoves THEN {r - 1, r} ELSE {r}
  IN {IF x < depth - 1 THEN x ELSE depth - 1 : x \in floors}

\* the depths with which alphaBeta(depth) calls itself: after a null move,
\* for its first move and the re-searches, and for its reduced late moves
SearchEngine_childDepths(depth, inCheck) ==
  {depth - 1}
  \cup (IF ~inCheck /\ depth >= 3 THEN {depth - NULL_MOVE_REDUCTION - 1} ELSE {})
  \cup (IF ~inCheck /\ depth >= LMR_REDUCTION_LIMIT
        THEN {depth - 1 - reduction :
                reduction \in UNION {SearchEngine_reductions(depth, searchedMoves) :
                    searchedMoves \in LMR_FULL_DEPTH_MOVES..MaxSearchedMoves}}
        ELSE {})

\* search(): maxDepth is 6 for moveCount < 10 and 10 otherwise
SearchEngine_searchStarts(maxDepth) ==
  /\ searchNode.at = "idle"
  /\ searchNode' = [at |-> "search", maxDepth |-> maxDepth, depth |-> 1]
  /\ UNCHANGED <<hostVars, tableVars, opusVars, killerVars>>

\* search(): alphaBeta(board, gameState, depth, -Infinity, Infinity, 0, true)
SearchEngine_iterate ==
  /\ searchNode.at = "search"
  /\ searchNode.depth <= searchNode.maxDepth
  /\ searchNode' = [at |-> "alphaBeta", maxDepth |-> searchNode.maxDepth,
                    iteration |-> searchNode.depth,
                    depth |-> searchNode.depth, ply |-> 0]
  /\ UNCHANGED <<hostVars, tableVars, opusVars, killerVars>>

\* search(): the loop ends (maxDepth passed, time used, TIME_UP, or a mate
\* score) and bestMove is returned
SearchEngine_searchReturns ==
  /\ searchNode.at = "search"
  /\ searchNode' = [at |-> "returned"]
  /\ UNCHANGED <<hostVars, tableVars, opusVars, killerVars>>

\* alphaBeta calls itself at ply + 1
SearchEngine_alphaBeta(inCheck, childDepth) ==
  /\ searchNode.at = "alphaBeta"
  /\ searchNode.ply < MaxStack
  /\ ~SearchEngine_stackGuard(searchNode.ply)
  /\ LET depth == SearchEngine_extended(searchNode.depth, inCheck)
     IN /\ depth > 0
        /\ childDepth \in SearchEngine_childDepths(depth, inCheck)
  /\ searchNode' = [searchNode EXCEPT !.depth = childDepth, !.ply = @ + 1]
  /\ UNCHANGED <<hostVars, tableVars, opusVars, killerVars>>

\* alphaBeta: "Quiescence search at leaf nodes"
SearchEngine_horizon(inCheck) ==
  /\ searchNode.at = "alphaBeta"
  /\ ~SearchEngine_stackGuard(searchNode.ply)
  /\ SearchEngine_extended(searchNode.depth, inCheck) <= 0
  /\ searchNode' = [at |-> "quiescence", maxDepth |-> searchNode.maxDepth,
                    iteration |-> searchNode.iteration,
                    ply |-> searchNode.ply, qDepth |-> 0, plies |-> 0]
  /\ UNCHANGED <<hostVars, tableVars, opusVars, killerVars>>

\* quiescence calls itself with qDepth + 1
SearchEngine_quiescence ==
  /\ searchNode.at = "quiescence"
  /\ searchNode.plies < MaxStack
  /\ searchNode.qDepth < QUIESCENCE_DEPTH
  /\ searchNode' = [searchNode EXCEPT !.qDepth = @ + 1, !.plies = @ + 1]
  /\ UNCHANGED <<hostVars, tableVars, opusVars, killerVars>>

\* the call followed returns (or throws TIME_UP) and with it its iteration
SearchEngine_returns ==
  /\ searchNode.at \in {"alphaBeta", "quiescence"}
  /\ searchNode' = [at |-> "search", maxDepth |-> searchNode.maxDepth,
                    depth |-> searchNode.iteration + 1]
  /\ UNCHANGED <<hostVars, tableVars, opusVars, killerVars>>

InitSearch == HostIdle

NextSearch ==
  \/ \E maxDepth \in {6, 10} : SearchEngine_searchStarts(maxDepth)
  \/ SearchEngine_iterate
  \/ SearchEngine_searchReturns
  \/ \E inCheck \in BOOLEAN, childDepth \in 0..MAX_DEPTH :
       SearchEngine_alphaBeta(inCheck, childDepth)
  \/ \E inCheck \in BOOLEAN : SearchEngine_horizon(inCheck)
  \/ SearchEngine_quiescence
  \/ SearchEngine_returns

\* a call of search runs to its end: the worker executes nothing else
SpecSearch == InitSearch /\ [][NextSearch]_vars /\ WF_vars(NextSearch)

---------------------------------------------------------------------------
(* claude-opus-4-20250514-ULTRATHINK: MoveOrdering, killer moves *)

\* MoveOrdering.isCaptureMove(move)
MoveOrdering_isCaptureMove(move) ==
  FALSE

\* SearchEngine.isCapture(board, move)
SearchEngine_isCapture(board, move) ==
  board[move.to.row][move.to.col] # null

\* MoveOrdering.movesEqual(m1, m2): falsy when one of them is null
MoveOrdering_movesEqual(m1, m2) ==
  m1 # nullMove /\ m2 # nullMove /\ m1 = m2

\* MoveOrdering.updateKillers(move, ply): killerMoves as it leaves it
MoveOrdering_updateKillers(killers, move, ply) ==
  IF ~MoveOrdering_isCaptureMove(move) /\ ply < MAX_DEPTH /\ ply \in DOMAIN killers
  THEN IF ~MoveOrdering_movesEqual(move, killers[ply][1])
       THEN [killers EXCEPT ![ply] = <<move, killers[ply][1]>>]
       ELSE killers
  ELSE killers

\* positions alphaBeta searches below the root 1. e2-e4, with their ply: after
\* 1... d7-d5, and after 1... d7-d5 2. e4xd5
KillerNodes ==
  LET root == executeMove(createGameState("human", ULTRATHINK), Sq(4, 1), Sq(4, 3))
      first == executeMove(root, Sq(3, 6), Sq(3, 4))
      second == executeMove(first, Sq(4, 3), Sq(3, 4))
  IN { [ply |-> 1, gameState |-> first], [ply |-> 2, gameState |-> second] }

\* the moves whose beta cutoffs are followed: e4xd5, Nb1-c3, e4-e5 for White,
\* Qd8xd5, Ng8-f6, c7-c6 for Black
CutoffMoves(node) ==
  generateAllMoves(node.gameState.board, node.gameState)
    \cap { Mv(4, 3, 3, 4), Mv(1, 0, 2, 2), Mv(4, 3, 4, 4),
           Mv(3, 7, 3, 4), Mv(6, 7, 5, 5), Mv(2, 6, 2, 5) }

\* alphaBeta: score >= beta for `move` at a node, "Update killer moves and
\* history"
SearchEngine_betaCutoff(node, move) ==
  /\ move \in CutoffMoves(node)
  /\ killerMoves' = MoveOrdering_updateKillers(killerMoves, move, node.ply)
  /\ cutoffs' = cutoffs \cup
       {[ply |-> node.ply, move |-> move,
         capture |-> SearchEngine_isCapture(node.gameState.board, move)]}
  /\ UNCHANGED <<hostVars, tableVars, opusVars, searchNode>>

InitKillers == HostIdle

NextKillers ==
  \E node \in KillerNodes :
    \E move \in CutoffMoves(node) : SearchEngine_betaCutoff(node, move)

SpecKillers == InitKillers /\ [][NextKillers]_vars

---------------------------------------------------------------------------
(* claude-opus-4-20250514: alphaBeta *)

Opus4_MAX_DEPTH == 4
Opus4_MATE_SCORE == 100000

\* what alphaBeta returns for a position isCheckmate accepts
Opus4_mateScore(maximizing, depth) ==
  IF maximizing THEN -Opus4_MATE_SCORE + depth ELSE Opus4_MATE_SCORE - depth

\* makeMove: the iterative deepening loop goes on to the next depth
Opus4_deepen ==
  /\ opusNode.at \in {"idle", "makeMove"}
  /\ LET depth == IF opusNode.at = "idle" THEN 1 ELSE opusNode.iteration + 1
     IN /\ depth <= Opus4_MAX_DEPTH
        /\ opusNode' = [at |-> "makeMove", iteration |-> depth]
  /\ UNCHANGED <<opusMates, hostVars, tableVars, searchNode, killerVars>>

\* makeMove: -alphaBeta(testState, depth - 1, -INFINITY, INFINITY, false, ...)
\* for a root move. No root move mates: the loop "Check for immediate
\* checkmate" has returned such a move before the search
Opus4_rootMove ==
  /\ opusNode.at = "makeMove"
  /\ opusNode' = [at |-> "alphaBeta", iteration |-> opusNode.iteration,
                  depth |-> opusNode.iteration - 1, ply |-> 1,
                  maximizing |-> FALSE]
  /\ UNCHANGED <<opusMates, hostVars, tableVars, searchNode, killerVars>>

\* alphaBeta: isCheckmate(gameState) holds and the mate score is returned
Opus4_checkmate ==
  /\ opusNode.at = "alphaBeta"
  /\ opusNode.ply >= 2
  /\ opusMates' = opusMates \cup
       {[iteration |-> opusNode.iteration, ply |-> opusNode.ply,
         maximizing |-> opusNode.maximizing,
         score |-> Opus4_mateScore(opusNode.maximizing, opusNode.depth)]}
  /\ opusNode' = [at |-> "makeMove", iteration |-> opusNode.iteration]
  /\ UNCHANGED <<hostVars, tableVars, searchNode, killerVars>>

\* alphaBeta: the loop over orderedMoves calls
\* alphaBeta(testState, depth - 1, alpha, beta, !maximizing, ...)
Opus4_alphaBeta ==
  /\ opusNode.at = "alphaBeta"
  /\ opusNode.depth > 0
  /\ opusNode' = [opusNode EXCEPT !.depth = @ - 1, !.ply = @ + 1,
                                  !.maximizing = ~@]
  /\ UNCHANGED <<opusMates, hostVars, tableVars, searchNode, killerVars>>

\* alphaBeta returns another score: time is up, a transposition, a draw, the
\* quiescence search at depth 0, or the best score of its moves
Opus4_return ==
  /\ opusNode.at = "alphaBeta"
  /\ opusNode' = [at |-> "makeMove", iteration |-> opusNode.iteration]
  /\ UNCHANGED <<opusMates, hostVars, tableVars, searchNode, killerVars>>

InitOpus4 == HostIdle

NextOpus4 ==
  \/ Opus4_deepen
  \/ Opus4_rootMove
  \/ Opus4_checkmate
  \/ Opus4_alphaBeta
  \/ Opus4_return

SpecOpus4 == InitOpus4 /\ [][NextOpus4]_vars

---------------------------------------------------------------------------
(* Properties of the game *)

history == gameState.moveHistory
lastRecord(gs) == gs.moveHistory[Len(gs.moveHistory)]

\* this step executed a move
MoveExecuted == Len(gameState'.moveHistory) = Len(gameState.moveHistory) + 1

CastlingKeys == {"whiteKingSide", "whiteQueenSide", "blackKingSide", "blackQueenSide"}

\* C1: a move submitted by a human or returned by a bot worker is executed
\* only if it is legal for the side to move (it satisfies the piece rules and
\* does not leave the mover's own king attacked afterwards); any other
\* submission leaves the whole game state unchanged.
C1_OnlyLegalMovesExecuted ==
  [][ (gameState' # gameState /\ gameState'.moveHistory # <<>>) =>
        /\ MoveExecuted
        /\ LET m == lastRecord(gameState')
           IN /\ isValidMove(gameState.board, m.from, m.to, gameState)
              /\ ~isInCheck(gameState'.board, gameState.currentTurn) ]_vars

\* the step is a pawn's diagonal move onto the current en passant target
EnPassantCaptureStep ==
  /\ MoveExecuted
  /\ LET m == lastRecord(gameState')
     IN /\ m.piece.type = PAWN
        /\ m.to = gameState.enPassantTarget
        /\ m.from.row # m.to.row

\* the square of the pawn that made the two-square push onto which `mover`
\* now captures: on the target's row, one column beyond the target in the
\* pushed pawn's direction of travel
PassedPawnSquare(target, mover) ==
  Sq(target.row, target.col + (IF mover = WHITE THEN -1 ELSE 1))

\* C4: when a pawn moves diagonally onto the current enPassantTarget,
\* executeMove removes exactly the opposing pawn that made the preceding
\* two-square push, credits it to the capturing side, and removes no other
\* piece from the board.
C4_EnPassantRemovesPassedPawn ==
  [][ EnPassantCaptureStep =>
        LET m == lastRecord(gameState')
            mover == gameState.currentTurn
            passed == PassedPawnSquare(gameState.enPassantTarget, mover)
        IN /\ gameState'.board =
                Put(Put(Put(gameState.board, passed.row, passed.col, null),
                        m.to.row, m.to.col, m.piece),
                    m.from.row, m.from.col, null)
           /\ gameState'.capturedPieces =
                [gameState.capturedPieces EXCEPT
                   ![mover] = Append(@, P(PAWN, Opponent(mover)))] ]_vars

\* the last executed move was a pawn advancing two columns
LastWasDoublePush(gs) ==
  /\ gs.moveHistory # <<>>
  /\ lastRecord(gs).piece.type = PAWN
  /\ Abs(lastRecord(gs).to.col - lastRecord(gs).from.col) = 2

\* C5: after every executed move, enPassantTarget is non-null if and only if
\* that move was a pawn advancing two columns, and then it is the single
\* square the pawn passed over; so a target set by one move is gone after the
\* next move.
C5_EnPassantTargetOnlyAfterDoublePush ==
  IF LastWasDoublePush(gameState)
  THEN LET m == lastRecord(gameState)
       IN /\ gameState.enPassantTarget =
               Sq(m.from.row, m.from.col + Sign(m.to.col - m.from.col))
          /\ m.to = Sq(m.from.row, m.from.col + 2 * Sign(m.to.col - m.from.col))
          /\ gameState.board[gameState.enPassantTarget.row][gameState.enPassantTarget.col]
               = null
  ELSE gameState.enPassantTarget = nullSquare

\* a double push was answered by another move and its target is gone
C5_Witness ==
  /\ Len(history) >= 2
  /\ history[Len(history) - 1].piece.type = PAWN
  /\ Abs(history[Len(history) - 1].to.col - history[Len(history) - 1].from.col) = 2
  /\ gameState.enPassantTarget = nullSquare

\* the step is a castling move: the king goes two rows along its home column
CastlingStep ==
  /\ MoveExecuted
  /\ lastRecord(gameState').piece.type = KING
  /\ Abs(lastRecord(gameState').to.row - lastRecord(gameState').from.row) = 2

\* C6: a castling move is executed only from a state where the mover's
\* castling right for that wing is set, the king is on its start square and a
\* rook of its colour on that wing's corner, every square between them is
\* empty, and none of the king's departure, transit and destination squares
\* is attacked by the opponent; the rook is relocated next to the king.
C6_CastlingOnlyWhenAllowed ==
  [][ CastlingStep =>
        LET m == lastRecord(gameState')
            c == m.piece.color
            home == IF c = WHITE THEN 0 ELSE 7
            kingSide == m.to.row > m.from.row
            corner == IF kingSide THEN 7 ELSE 0
            transit == (m.from.row + m.to.row) \div 2
            b == gameState.board
        IN /\ c = gameState.currentTurn
           /\ IF c = WHITE
              THEN (IF kingSide THEN gameState.castlingRights.whiteKingSide
                    ELSE gameState.castlingRights.whiteQueenSide)
              ELSE (IF kingSide THEN gameState.castlingRights.blackKingSide
                    ELSE gameState.castlingRights.blackQueenSide)
           /\ m.from = Sq(4, home) /\ m.to.col = home
           /\ b[4][home] = P(KING, c)
           /\ b[corner][home] = P(ROOK, c)
           /\ \A r \in Idx : (r # 4 /\ r # corner /\ (r - 4) * (corner - 4) > 0)
                               => b[r][home] = null
           /\ \A r \in {4, transit, m.to.row} :
                ~isSquareUnderAttack(b, Sq(r, home), Opponent(c))
           /\ gameState'.board[m.to.row][home] = P(KING, c)
           /\ gameState'.board[transit][home] = P(ROOK, c)
           /\ gameState'.board[corner][home] = null
           /\ gameState'.board[4][home] = null ]_vars

\* a castling move has just been executed
C6_Witness ==
  /\ history # <<>>
  /\ lastRecord(gameState).castlingRookMove # nullMove

\* C7: between the start of a game and the next reset no executed move sets a
\* castling-right flag back to true: a flag that is false stays false.
C7_CastlingRightsNeverRegranted ==
  [][ gameState'.moveHistory # <<>> =>
        \A k \in CastlingKeys :
           gameState'.castlingRights[k] => gameState.castlingRights[k] ]_vars

\* the white king has moved away and come back to e1 beside its h1 rook, and
\* the king-side right is still gone
C7_Witness ==
  /\ history # <<>>
  /\ lastRecord(gameState).piece = P(KING, WHITE)
  /\ gameState.board[4][0] = P(KING, WHITE)
  /\ gameState.board[7][0] = P(ROOK, WHITE)
  /\ ~gameState.castlingRights.whiteKingSide

\* the board after the full effect of a move as the rules of chess give it:
\* an en passant capture removes the passed pawn, castling relocates the
\* rook, a pawn on the last column is promoted
FullEffectBoard(gs, from, to) ==
  LET board == gs.board
      movingPiece == board[from.row][from.col]
      passed == PassedPawnSquare(to, movingPiece.color)
      b1 == IF /\ movingPiece.type = PAWN
               /\ to = gs.enPassantTarget
               /\ from.row # to.row
            THEN Put(board, passed.row, passed.col, null) ELSE board
      rk == castlingRookMoveOf(from, to)
      b2 == IF isCastlingStep(movingPiece, from, to)
            THEN Put(Put(b1, rk.to.row, rk.to.col, b1[rk.from.row][rk.from.col]),
                     rk.from.row, rk.from.col, null)
            ELSE b1
      b3 == Put(Put(b2, to.row, to.col, movingPiece), from.row, from.col, null)
  IN IF isPromotion(movingPiece, to)
     THEN Put(b3, to.row, to.col, P(QUEEN, movingPiece.color))
     ELSE b3

\* a legal move: accepted by the piece rules, and its full effect leaves the
\* mover's king unattacked
LegalMove(gs, from, to) ==
  /\ isValidMove(gs.board, from, to, gs)
  /\ ~isInCheck(FullEffectBoard(gs, from, to), gs.currentTurn)

HasLegalMove(gs) ==
  \E from \in Squares :
     /\ gs.board[from.row][from.col] # null
     /\ gs.board[from.row][from.col].color = gs.currentTurn
     /\ \E to \in Squares : LegalMove(gs, from, to)

\* C8: after every executed move, gameStatus is 'checkmate' exactly when the
\* side now to move is in check and has no legal move, and 'stalemate'
\* exactly when it is not in check and has no legal move.
C8_StatusMatchesLegalMoves ==
  history # <<>> =>
    LET inCheck == isInCheck(gameState.board, gameState.currentTurn)
    IN /\ gameState.gameStatus = "checkmate" <=> (inCheck /\ ~HasLegalMove(gameState))
       /\ gameState.gameStatus = "stalemate" <=> (~inCheck /\ ~HasLegalMove(gameState))

\* what identifies a position: every square's piece, the side to move, the
\* four castling rights and the en passant target
PositionOf(gs) ==
  [board |-> gs.board, currentTurn |-> gs.currentTurn,
   castlingRights |-> gs.castlingRights, enPassantTarget |-> gs.enPassantTarget]

RECURSIVE PositionsOfGame(_, _)
\* the positions of the game after 0, 1, .. k of the executed moves of `moves`
PositionsOfGame(moves, k) ==
  IF k = 0 THEN << PositionOf(createGameState("human", "human")) >>
  ELSE LET before == PositionsOfGame(moves, k - 1)
           prev == before[k] @@ [capturedPieces |-> [white |-> <<>>, black |-> <<>>]]
           m == moves[k]
       IN Append(before,
                 [board |-> executeMoveBoard(prev, m.from, m.to),
                  currentTurn |-> Opponent(prev.currentTurn),
                  castlingRights |-> executeMoveCastlingRights(prev, m.from, m.to),
                  enPassantTarget |-> executeMoveEnPassantTarget(prev, m.from, m.to)])

\* how often the current position has occurred in the game, the starting
\* position included
Occurrences(gs) ==
  Count(PositionsOfGame(gs.moveHistory, Len(gs.moveHistory)), PositionOf(gs))

\* C9: for the state produced by an executed move, isDrawByRepetition is true
\* if and only if that position has occurred at least three times in the game
\* so far, counting the starting position.
C9_RepetitionIffThreeOccurrences ==
  history # <<>> => (isDrawByRepetition(gameState) <=> Occurrences(gameState) >= 3)

\* C10: in every state in which gameStatus is 'playing' or 'check' the board
\* has exactly one white king and exactly one black king.
C10_OneKingEach ==
  gameState.gameStatus \in {"playing", "check"} =>
    /\ Cardinality(KingSquares(gameState.board, WHITE)) = 1
    /\ Cardinality(KingSquares(gameState.board, BLACK)) = 1

\* C11: no reachable state has a white pawn on column 7 or a black pawn on
\* column 0: a pawn that moves onto the opponent's back column is replaced,
\* in the same executeMove, by a non-pawn piece of its colour on that square.
C11_NoPawnOnLastColumn ==
  /\ \A r \in Idx : /\ gameState.board[r][7] # P(PAWN, WHITE)
                    /\ gameState.board[r][0] # P(PAWN, BLACK)
  /\ (history # <<>> /\ lastRecord(gameState).piece.type = PAWN
        /\ lastRecord(gameState).to.col
             = (IF lastRecord(gameState).piece.color = WHITE THEN 7 ELSE 0))
       => LET m == lastRecord(gameState)
              now == gameState.board[m.to.row][m.to.col]
          IN now # null /\ now.type # PAWN /\ now.color = m.piece.color

\* a black pawn has just moved onto column 0
C11_Witness ==
  /\ history # <<>>
  /\ lastRecord(gameState).piece = P(PAWN, BLACK)
  /\ lastRecord(gameState).to.col = 0
  /\ gameState.board[lastRecord(gameState).to.row][0] = P(QUEEN, BLACK)

\* the moves of `moves` made by a piece of type `type`
MovesOfType(moves, board, type) ==
  {m \in moves : board[m.from.row][m.from.col].type = type}

\* C12: in the standard initial position the legal moves of the side to move
\* (accepted by isValidMove, not leaving the mover's king in check) are
\* exactly 20, 16 pawn moves and 4 knight moves, for White and equally for
\* Black when Black is the side to move.
C12_TwentyMovesInInitialPosition ==
  gameState.board = createInitialBoard =>
    \A c \in COLORS :
      LET moves == getAllValidMoves([gameState EXCEPT !.currentTurn = c], c)
      IN /\ Cardinality(moves) = 20
         /\ Cardinality(MovesOfType(moves, gameState.board, PAWN)) = 16
         /\ Cardinality(MovesOfType(moves, gameState.board, KNIGHT)) = 4

\* a started game stands in the initial position, where e2-e4 and Ng1-f3 are
\* among White's moves
C12_Witness ==
  /\ gameStarted
  /\ gameState.board = createInitialBoard
  /\ {e2e4, Ng1f3} \subseteq getAllValidMoves(gameState, WHITE)

\* a step in which the host has dealt with the running worker's reply while
\* the game is on and it is a bot's turn
ReplyHandled ==
  /\ gameStarted /\ gameStarted'
  /\ ~crashed /\ ~crashed'
  /\ BotToMove(gameState, gameStarted)
  /\ botWorkerRef # <<>>
  /\ botWorkerRef' = <<>>

\* C15: whenever the game is started, it is a bot's turn and gameStatus is
\* 'playing' or 'check', then once the bot worker has replied, either a move
\* has been executed, or the game has been marked over, or the host has
\* requested a move again: no reply leaves the game waiting with no request
\* pending.
C15_AfterReplyGameGoesOn ==
  [][ReplyHandled =>
        \/ gameState'.moveHistory # gameState.moveHistory
        \/ gameState'.gameStatus \notin {"playing", "check"}
        \/ timer' # <<>>]_vars

---------------------------------------------------------------------------
(* Properties of the engines *)

\* the game state and the turn the running worker was sent
called == botWorkerRef[1].gameState

\* C2: ULTRATHINK's makeMove returns null when the side has no legal move and
\* otherwise returns a move that is legal for that side, on every return
\* path: opening move, completed search, search cut off by the clock, and the
\* error fallback.
C2_UltrathinkReturnsLegalMove ==
  (botWorkerRef # <<>> /\ botWorkerRef[1].botType = ULTRATHINK) =>
    \A r \in ULTRATHINK_returns(called, called.currentTurn,
                                Offered(line, Len(called.moveHistory))) :
       IF HasLegalMove(called)
       THEN r # nullMove /\ LegalMove(called, r.from, r.to)
       ELSE r = nullMove

\* C3: Sonnet 4's makeMove never returns null while the side to move has a
\* legal move, whenever the time limit expires.
C3_Sonnet4ReturnsMoveWhenOneExists ==
  (botWorkerRef # <<>> /\ botWorkerRef[1].botType = SONNET4 /\ HasLegalMove(called)) =>
    \A r \in Sonnet4_returns(called, called.currentTurn,
                             Offered(line, Len(called.moveHistory))) :
       r # nullMove

\* the root moves of `called` that checkmate the opponent at once
MatingMoves(gs) ==
  {m \in getAllValidMoves(gs, gs.currentTurn) :
     LET after == [gs EXCEPT !.board = FullEffectBoard(gs, m.from, m.to),
                             !.currentTurn = Opponent(gs.currentTurn)]
     IN isInCheck(after.board, after.currentTurn) /\ ~HasLegalMove(after)}

\* the worker runs Claude 3.5 Sonnet on a position with a mate in one and at
\* least two legal moves, and the opening book has no move for it
Sonnet35MateInOne ==
  /\ botWorkerRef # <<>>
  /\ botWorkerRef[1].botType = SONNET35
  /\ Cardinality(getAllValidMoves(called, called.currentTurn)) >= 2
  /\ MatingMoves(called) # {}
  /\ \A k \in Randoms :
       Len(called.moveHistory) >= 4
       \/ Sonnet35_getOpeningBookMove(called, called.currentTurn, k) = nullMove

\* C13: in a position where Claude 3.5 Sonnet has at least two legal moves and
\* one of them checkmates at once, makeMove (no opening-book move, clock not
\* expiring) returns a checkmating move.
C13_Sonnet35PlaysMateInOne ==
  Sonnet35MateInOne =>
    LET root == Sonnet35_rootOf(called, called.currentTurn)
    IN \A k \in Randoms, favs \in Sonnet35_Favs :
          Sonnet35_makeMoveAt(called, called.currentTurn, root, k, favs,
                              Sonnet35_noTimeout(Cardinality(root.moves)))
            \in MatingMoves(called)

\* C17: for every non-terminal position the Claude 3.5 Sonnet evaluator is
\* antisymmetric in the perspective: evaluatePosition(p, white) =
\* -evaluatePosition(p, black).
C17_EvaluatePositionAntisymmetric ==
  (/\ botWorkerRef # <<>>
   /\ botWorkerRef[1].botType = SONNET35
   /\ hasAnyLegalMove(called.board, called.currentTurn, called)) =>
    Sonnet35_evaluatePosition(called, WHITE) = -Sonnet35_evaluatePosition(called, BLACK)

\* the worker runs Claude 3.5 Sonnet on a position where it searches: no
\* opening-book move and at least two legal moves
Sonnet35Searches ==
  /\ botWorkerRef # <<>>
  /\ botWorkerRef[1].botType = SONNET35
  /\ Cardinality(getAllValidMoves(called, called.currentTurn)) >= 2
  /\ \A k \in Randoms :
       Len(called.moveHistory) >= 4
       \/ Sonnet35_getOpeningBookMove(called, called.currentTurn, k) = nullMove

\* the number of iterations that rate all n root moves under `clock`
Sonnet35_completed(clock, n) ==
  IF clock.ran = 0 THEN 0
  ELSE IF clock.cut >= n THEN clock.ran
  ELSE clock.ran - 1

\* C19: in the iterative-deepening loop of Claude 3.5 Sonnet's makeMove (and
\* of Claude Opus 4's) the move returned is the best root move of the deepest
\* depth whose search ran to completion before the time checks fired: an
\* iteration cut short by a time check never changes the move returned.
C19_DeepestCompletedDepthDecides ==
  Sonnet35Searches =>
    LET root == Sonnet35_rootOf(called, called.currentTurn)
        n == Cardinality(root.moves)
    IN \A k \in Randoms, favs \in Sonnet35_Favs, clock \in Sonnet35_Clocks(n) :
          Sonnet35_completed(clock, n) >= 1 =>
            Sonnet35_makeMoveAt(called, called.currentTurn, root, k, favs, clock)
              = Sonnet35_currentBest(root.moves, Sonnet35_completed(clock, n),
                                     root, favs).move

\* C14: an exception raised inside ULTRATHINK's search that is not the
\* 'TIME_UP' signal propagates out of makeMove to the caller; it is never
\* caught and replaced by a fallback move.
C14_UltrathinkExceptionPropagates ==
  (botWorkerRef # <<>> /\ botWorkerRef[1].botType = ULTRATHINK) =>
    \A k \in Randoms, found \in Offered(line, Len(called.moveHistory)) \cup {nullMove} :
       ULTRATHINK_outcome(called, called.currentTurn, k, TRUE, found).kind = "thrown"

\* the bot's move number in a call: floor(moveHistory length / 2) + 1
moveNumberOf(gs) == (Len(gs.moveHistory) \div 2) + 1

\* C18: the time limit Sonnet 4 and Gemini 2.5 Pro choose for a move is
\* 500 ms for the move numbers 1 to 10, 1000 ms for 11 to 20 and 2000 ms for
\* every later move.
C18_TimeLimitByMoveNumber ==
  botWorkerRef # <<>> =>
    LET moveNumber == moveNumberOf(called)
        limit == IF moveNumber <= 10 THEN 500
                 ELSE IF moveNumber <= 20 THEN 1000
                 ELSE 2000
    IN /\ botWorkerRef[1].botType = SONNET4 =>
            Sonnet4_updateTimeLimit(moveNumber) = limit
       /\ botWorkerRef[1].botType = GEMINI =>
            Gemini_timeLimit(moveNumber) = limit

\* the state of the game after `move` has been executed in gs: what
\* identifies its position, and the moves made
Played(gs, move) ==
  LET prev == [board |-> gs.board, currentTurn |-> gs.currentTurn,
               castlingRights |-> gs.castlingRights,
               enPassantTarget |-> gs.enPassantTarget,
               capturedPieces |-> [white |-> <<>>, black |-> <<>>]]
  IN [board |-> executeMoveBoard(prev, move.from, move.to),
      currentTurn |-> Opponent(gs.currentTurn),
      castlingRights |-> executeMoveCastlingRights(prev, move.from, move.to),
      enPassantTarget |-> executeMoveEnPassantTarget(prev, move.from, move.to),
      moveHistory |-> Append(gs.moveHistory, move)]

\* the positions that the game whose moves are `moves` has had at least
\* twice, the starting position included
PositionsHadTwice(moves) ==
  LET positions == PositionsOfGame(moves, Len(moves))
  IN {positions[i] : i \in {j \in 1..Len(positions) :
                              Count(positions, positions[j]) >= 2}}

\* the move leads from gs to one of the positions of `twice`
LeadsToRepetition(gs, move, twice) ==
  PositionOf(Played(gs, move)) \in twice

\* a call of Gemini 2.5 Pro's makeMove that reaches its search
GeminiSearches ==
  /\ botWorkerRef # <<>>
  /\ botWorkerRef[1].botType = GEMINI
  /\ ~Gemini_replayThrows(called.moveHistory)

\* C16: in Gemini 2.5 Pro's search a move that leads to a position which the
\* game has had at least twice (same board, side to move, castling rights
\* and en passant target) is given the score 0, whatever minimax would rate
\* it, at the root and at the nodes below it.
C16_RepetitionScoresZero ==
  GeminiSearches =>
    LET moves == called.moveHistory
        twice == PositionsHadTwice(moves)
        keys == Gemini_positionKeys(moves)
        validMoves == Gemini_getAllValidMoves(called, called.currentTurn)
    IN twice # {} =>
         \A i \in 1..Len(validMoves) :
           LET move == validMoves[i]
               node == Played(called, move)
               replies == Gemini_getAllValidMoves(node, node.currentTurn)
           IN /\ LeadsToRepetition(called, move, twice) =>
                   \A rated \in {-50, 50} :
                     Gemini_moveValue(called, keys, move, rated) = 0
              /\ \A j \in 1..Len(replies) :
                   LeadsToRepetition(node, replies[j], twice) =>
                     Gemini_isRepetition(node, keys, replies[j])

\* the last of the first `done` iterations of ULTRATHINK's loop that found a
\* principal variation has left this move; nullMove if there is none
ULTRATHINK_lastCompleted(run) ==
  LET found == {d \in 1..run.done : ULTRATHINK_pvOf(run, d) # nullMove}
  IN IF found = {} THEN nullMove
     ELSE ULTRATHINK_pvOf(run, CHOOSE d \in found : \A e \in found : e <= d)

\* C20: when the time limit passes during an iteration of Gemini 2.5 Pro's or
\* ULTRATHINK's iterative deepening, the move returned is the one that the
\* last completed depth has committed, or the initial fallback move (the
\* first valid move, the first ordered move) if no depth was completed,
\* whatever the aborted iteration has computed.
C20_AbortedIterationDiscarded ==
  LET n == Len(called.moveHistory)
      candidates == Offered(line, n)
  IN /\ GeminiSearches =>
          LET root == Gemini_rootOf(called, called.currentTurn)
              found == Gemini_searches(root, Gemini_Favs(candidates))
          IN root.validMoves # << >> =>
               \A run \in Gemini_Runs(candidates), k \in Randoms :
                 run.done < Gemini_MAX_SEARCH_DEPTH =>
                   Gemini_makeMoveAt(root, found, run, k) =
                     IF run.done = 0 THEN root.validMoves[1]
                     ELSE found[Gemini_favOf(run, run.done)][k]
     /\ (botWorkerRef # <<>> /\ botWorkerRef[1].botType = ULTRATHINK) =>
          LET calls == {<< found, k,
                           ULTRATHINK_makeMove(called, called.currentTurn, k, FALSE, found) >> :
                          found \in candidates \cup {nullMove}, k \in Randoms}
              returned(found, k) ==
                (CHOOSE call \in calls : call[1] = found /\ call[2] = k)[3]
          IN \A run \in ULTRATHINK_Runs(candidates), k \in Randoms :
               returned(ULTRATHINK_found(run, n), k)
                 = returned(ULTRATHINK_lastCompleted(run), k)

\* Gemini 2.5 Pro is searching, and in one course of its loop the time limit
\* passes after a completed depth, in an iteration whose best move is not the
\* one that is returned
C20_Witness ==
  /\ GeminiSearches
  /\ LET candidates == Offered(line, Len(called.moveHistory))
         root == Gemini_rootOf(called, called.currentTurn)
         found == Gemini_searches(root, Gemini_Favs(candidates))
     IN /\ root.validMoves # << >>
        /\ \E run \in Gemini_Runs(candidates), k \in Randoms :
             /\ run.done \in 1..(Gemini_MAX_SEARCH_DEPTH - 1)
             /\ found[run.aborted][k] # Gemini_makeMoveAt(root, found, run, k)

---------------------------------------------------------------------------
(* Properties of the host's worker dispatch *)

\* C21: at most one bot worker is alive at any time (no timer that would
\* create one is pending beside a live worker), and a live worker was started
\* with the position the game is in, in a started game: a reply of a worker
\* started before a reset or before an executed move is never applied.
C21_OneWorkerForTheCurrentPosition ==
  /\ timer # <<>> => botWorkerRef = <<>>
  /\ botWorkerRef # <<>> =>
       /\ gameStarted
       /\ botWorkerRef[1].gameState = gameState
  /\ timer # <<>> => (gameStarted /\ timer[1] = gameState)

\* a worker is alive in a game in which moves have been executed
C21_Witness ==
  /\ botWorkerRef # <<>>
  /\ Len(gameState.moveHistory) >= 2

\* the game has ended
GameOver(gs) == gs.gameStatus \in {"checkmate", "stalemate", "draw"}

\* C22: once gameStatus is checkmate, stalemate or draw, board, side to move,
\* histories and status stay unchanged by every step but resetGame.
C22_NoMoveAfterGameOver ==
  [][GameOver(gameState) =>
       \/ /\ gameState'.board = gameState.board
          /\ gameState'.currentTurn = gameState.currentTurn
          /\ gameState'.moveHistory = gameState.moveHistory
          /\ gameState'.positionHistory = gameState.positionHistory
          /\ gameState'.gameStatus = gameState.gameStatus
       \/ (gameStarted /\ ~gameStarted')]_vars

\* a human moves in a game that has ended
C22_Counterexample ==
  [][~(/\ GameOver(gameState)
       /\ gameStarted'
       /\ Len(gameState'.moveHistory) = Len(gameState.moveHistory) + 1)]_vars

\* C23: in every reachable state currentTurn is white exactly when
\* moveHistory has even length, moveHistory and positionHistory have the same
\* length, and the piece each executed move moved had the colour whose turn it
\* was (white at the odd entries of moveHistory, black at the even ones).
C23_TurnAndHistories ==
  LET n == Len(gameState.moveHistory)
  IN /\ (gameState.currentTurn = WHITE) <=> (n % 2 = 0)
     /\ gameState.currentTurn \in {WHITE, BLACK}
     /\ Len(gameState.positionHistory) = n
     /\ \A i \in 1..n :
          gameState.moveHistory[i].piece.color = (IF i % 2 = 1 THEN WHITE ELSE BLACK)

\* both sides have moved and a capture has been executed
C23_Witness ==
  /\ Len(gameState.moveHistory) >= 3
  /\ \E i \in 1..Len(gameState.moveHistory) : gameState.moveHistory[i].captured # null

\* the move lastMove' of piece rules lets the castling right of colour c on
\* the wing of file r lapse: the king of c moves, the rook of c leaves the
\* corner square of that wing, or the rook of c is captured on it
LapseAllowed(c, r) ==
  LET from == lastMove'.from
      to == lastMove'.to
      corner == [row |-> r, col |-> IF c = WHITE THEN 0 ELSE 7]
      movingPiece == gameState.board[from.row][from.col]
      capturedPiece == gameState.board[to.row][to.col]
  IN \/ movingPiece = P(KING, c)
     \/ movingPiece = P(ROOK, c) /\ from = corner
     \/ capturedPiece = P(ROOK, c) /\ to = corner

\* C24: when executeMove runs, a castling-right flag changes from true to
\* false only if the king of that side moves, the rook of that side leaves the
\* corner square of that wing, or that rook is captured on that corner square;
\* no flag changes from false to true.
C24_CastlingRightsFrame ==
  [][MoveExecuted =>
       LET old == gameState.castlingRights
           new == gameState'.castlingRights
       IN /\ (old.whiteKingSide # new.whiteKingSide) =>
               (old.whiteKingSide /\ LapseAllowed(WHITE, 7))
          /\ (old.whiteQueenSide # new.whiteQueenSide) =>
               (old.whiteQueenSide /\ LapseAllowed(WHITE, 0))
          /\ (old.blackKingSide # new.blackKingSide) =>
               (old.blackKingSide /\ LapseAllowed(BLACK, 7))
          /\ (old.blackQueenSide # new.blackQueenSide) =>
               (old.blackQueenSide /\ LapseAllowed(BLACK, 0))]_vars

\* a castling right lapses although neither the king nor the rook of that
\* wing has moved or been captured
C24_Counterexample ==
  [][MoveExecuted =>
       ~(/\ gameState.castlingRights.whiteQueenSide
         /\ ~gameState'.castlingRights.whiteQueenSide
         /\ ~LapseAllowed(WHITE, 0))]_vars

\* what the Gemini bot's applyMoveToGameState and the game's executeMove
\* both compute: board, side to move, castling rights and en passant target
GeminiAgrees(g, s) ==
  /\ g.board = s.board
  /\ g.currentTurn = s.currentTurn
  /\ g.castlingRights = s.castlingRights
  /\ g.enPassantTarget = s.enPassantTarget

\* C25: for every move the game executes in a reachable state, the Gemini
\* bot's applyMoveToGameState yields the board, side to move, castling rights
\* and en passant target of executeMove (so that replaying moveHistory inside
\* the bot reproduces the game's position).
C25_GeminiAppliesMovesAsTheGame ==
  [][MoveExecuted =>
       GeminiAgrees(Gemini_applyMoveToGameState(gameState, lastMove'), gameState')]_vars

\* the game castles and the bot's board differs from the game's afterwards
C25_Counterexample ==
  [][(/\ MoveExecuted
      /\ lastRecord(gameState').piece.type = KING
      /\ lastRecord(gameState').castlingRookMove # nullMove) =>
       Gemini_applyMoveToGameState(gameState, lastMove').board = gameState'.board]_vars

\* the moves the immediate-checkmate shortcut of Sonnet 4 returns in the
\* running call (it is reached when the side has more than one valid move)
Sonnet4Shortcuts ==
  LET validMoves == Sonnet4_getAllValidMoves(called, called.currentTurn)
  IN IF Cardinality(validMoves) <= 1 THEN {}
     ELSE {Sonnet4_immediateCheckmate(called, called.currentTurn, validMoves, order) :
             order \in PieceOrders} \ {nullMove}

\* C26: a move that Sonnet 4's immediate-checkmate shortcut returns
\* checkmates the opponent: after it the opponent is in check and has no
\* legal reply.
C26_ShortcutReturnsOnlyMates ==
  (botWorkerRef # <<>> /\ botWorkerRef[1].botType = SONNET4) =>
    \A m \in Sonnet4Shortcuts : m \in MatingMoves(called)

\* the shortcut returns a move after which the opponent has a legal reply
C26_Counterexample ==
  ~(/\ botWorkerRef # <<>>
    /\ botWorkerRef[1].botType = SONNET4
    /\ \E m \in Sonnet4Shortcuts :
         HasLegalMove([called EXCEPT
                         !.board = FullEffectBoard(called, m.from, m.to),
                         !.currentTurn = Opponent(called.currentTurn)]))

---------------------------------------------------------------------------
(* Properties of the engines' tables *)

\* C27: after every store the transposition table holds at most TableSize
\* entries, the entries a store deleted have the smallest ages (none is newer
\* than an entry that stayed), and an entry that store writes is returned by
\* probe for its hash afterwards.
C27_TableBoundedOldestEvicted ==
  /\ Len(table) <= TableSize
  /\ \A e \in evicted : \A i \in 1..Len(table) : e.age <= table[i].age
  /\ age >= 1 =>
       \A hash \in Hashes, depth \in 0..MaxStoreDepth, result \in StoredResults :
         LET r == TranspositionTable_store(table, TableSize, hash, depth,
                                           result.score, result.flag, result.move, age)
         IN /\ Len(r.table) <= TableSize
            /\ TranspositionTable_writes(table, hash, depth, age) =>
                 TranspositionTable_probe(r.table, hash) =
                   [hash |-> hash, depth |-> depth, score |-> result.score,
                    flag |-> result.flag, move |-> result.move, age |-> age]

\* a store into a full table has deleted an entry of an earlier search
C27_Witness ==
  /\ Len(table) = TableSize
  /\ \E e \in evicted : e.age < age
  /\ \E i \in 1..Len(table) : table[i].age = age

\* mate score a is better than b for the side that mates: the minimizer when
\* the maximizing side is the one to move in the mate position
BetterForMatingSide(a, b) ==
  IF a.maximizing THEN a.score < b.score ELSE a.score > b.score

\* C28: of two checkmate scores that Claude Opus 4's alphaBeta returns for
\* the same side in the same iteration of a search, the one of the mate
\* fewer plies from the root has the greater magnitude and is the better score
\* for the mating side.
C28_NearerMateScoresBetter ==
  \A a \in opusMates, b \in opusMates :
    (a.iteration = b.iteration /\ a.maximizing = b.maximizing /\ a.ply < b.ply) =>
      /\ Abs(a.score) > Abs(b.score)
      /\ BetterForMatingSide(a, b)

\* the mate two plies from the root has been scored 99998 in magnitude and
\* the mate four plies from the root 100000
C28_Counterexample ==
  ~(\E a \in opusMates, b \in opusMates :
      /\ a.iteration = Opus4_MAX_DEPTH /\ b.iteration = Opus4_MAX_DEPTH
      /\ a.ply = 2 /\ b.ply = 4
      /\ a.score = 2 - Opus4_MATE_SCORE
      /\ b.score = -Opus4_MATE_SCORE)

\* C29: every call of ULTRATHINK's search returns, also when the clock never
\* expires: no alphaBeta is called beyond ply 2 * MAX_DEPTH, and no
\* quiescence is called more than QUIESCENCE_DEPTH plies below the alphaBeta
\* that entered it.
C29_SearchTerminates ==
  /\ [](searchNode.at = "alphaBeta" => searchNode.ply <= 2 * MAX_DEPTH)
  /\ [](searchNode.at = "quiescence" => searchNode.plies <= QUIESCENCE_DEPTH)
  /\ <>(searchNode.at = "returned")

\* alphaBeta has been called at ply 2 * MAX_DEPTH, where it returns the
\* evaluation, after check extensions have kept the depth from running out
C29_Witness ==
  /\ searchNode.at = "alphaBeta"
  /\ searchNode.ply = 2 * MAX_DEPTH
  /\ searchNode.depth > 0

\* C30: each ply's killer list holds at most two moves, never the same move
\* twice, and every recorded killer is a move that caused a beta cutoff at
\* that ply without capturing.
C30_KillersAreQuietCutoffMoves ==
  \A ply \in DOMAIN killerMoves :
    LET killers == killerMoves[ply]
    IN /\ Len(killers) = 2
       /\ killers[1] # nullMove => killers[1] # killers[2]
       /\ \A i \in 1..2 :
            killers[i] # nullMove =>
              \E c \in cutoffs :
                c.ply = ply /\ c.move = killers[i] /\ ~c.capture

\* a move that captured where it caused its cutoff stands in a killer list
C30_Counterexample ==
  ~(\E ply \in DOMAIN killerMoves, i \in 1..2 :
      /\ killerMoves[ply][i] # nullMove
      /\ \E c \in cutoffs :
           c.ply = ply /\ c.move = killerMoves[ply][i] /\ c.capture)

====
